---- MODULE Spec2Model ----
(***************************************************************************)
(* The engine bridge of packet-pilot (src-tauri): the sharkd JSON-RPC      *)
(* client, the binary locator and the install-health probe                 *)
(* (sharkd_client.rs), the global bridge slot and the Tauri commands that  *)
(* use it (lib.rs), the loopback HTTP handlers (http_bridge.rs) and the    *)
(* Python sidecar process (python_sidecar.rs).                             *)
(*                                                                         *)
(* Ten specifications share the variables:                                 *)
(*   Spec        the application: a startup thread and command threads     *)
(*               that reach the client only through the global mutex;      *)
(*   SpecSeq     the application with the startup thread and one command   *)
(*               thread that runs every command and handler with every     *)
(*               argument of the model;                                    *)
(*   SpecMutex   the startup thread and command threads that run           *)
(*               init_sharkd and the commands that make two round trips;   *)
(*   SpecClient  one constructed SharkdClient shared by threads that call  *)
(*               its operations directly (&self methods of a Sync type);   *)
(*   SpecIds     threads that call status on one shared SharkdClient, the  *)
(*               engine answering with a result or an error object;        *)
(*   SpecRpc     one caller, one send_request after another, the engine    *)
(*               answering with every response line of the bounded JSON    *)
(*               universe;                                                 *)
(*   SpecSidecar the sidecar commands and the exit of the sidecar child;   *)
(*   SpecHost    the locator and get_install_health on every host of the   *)
(*               bounded universe;                                         *)
(*   SpecHealth  get_install_health on a thread of its own beside the      *)
(*               bridge commands of a second thread;                       *)
(*   SpecLive    the startup thread, a command thread and the sidecar      *)
(*               thread under fair scheduling, with engines that answer.   *)
(***************************************************************************)
EXTENDS Integers, Sequences, FiniteSets, TLC

(***************************************************************************)
(* Bounds                                                                  *)
(***************************************************************************)
\* command threads 1..NThreads (thread 0 is the startup thread of run())
NThreads == 2
\* requests written on one client: request_id stays <= MaxReq + 1
MaxReq == 3
\* engine processes spawned in one run
MaxEngines == 2
\* sidecar children spawned in one run
MaxChildren == 2

(***************************************************************************)
(* serde_json::Value, tagged by its JSON type.  An object is a function    *)
(* from its keys to values, an array a sequence.                           *)
(***************************************************************************)
EmptyObj == [k \in {} |-> 0]
JNull == [t |-> "null"]
JBool(b) == [t |-> "bool", v |-> b]
JNum(n) == [t |-> "num", v |-> n]
JStr(s) == [t |-> "str", v |-> s]
JArr(s) == [t |-> "arr", v |-> s]
JObj(f) == [t |-> "obj", v |-> f]

\* Option<T>
None == [some |-> FALSE]
Some(x) == [some |-> TRUE, v |-> x]

\* Result<T, String>: the error string is kept as its format and arguments
Ok(x) == [ok |-> TRUE, v |-> x]
Err(kind) == [ok |-> FALSE, kind |-> kind]
ErrRemote(code, message) ==
    [ok |-> FALSE, kind |-> "Sharkd error", code |-> code, message |-> message]

\* Value::get(key): Some(member) for an object that has the key, else None
Get(val, key) ==
    IF val.t = "obj" /\ key \in DOMAIN val.v THEN Some(val.v[key]) ELSE None

\* Option<T>::deserialize of an optional struct member: a missing key and a
\* JSON null both give None
OptMember(m) == IF m.some /\ m.v.t # "null" THEN m ELSE None

(***************************************************************************)
(* Lines on the engine's output pipe, as read_line returns them:           *)
(*   [t |-> "json", v |-> value]  a line holding the JSON text of value    *)
(*   [t |-> "garbage"]            a line that is not JSON                  *)
(*   [t |-> "badutf8"]            a line that is not UTF-8                 *)
(*   [t |-> "eof"]                the empty string read_line gives at end  *)
(*                                of file                                  *)
(***************************************************************************)
JsonLine(v) == [t |-> "json", v |-> v]
GarbageLine == [t |-> "garbage"]
BadUtf8Line == [t |-> "badutf8"]
EofLine == [t |-> "eof"]

IsString(x) == x.t = "str"
IsU64(x) == x.t = "num" /\ x.v >= 0
IsI64(x) == x.t = "num"

\* struct JsonRpcError { code: i64, message: String }, from a JSON object or
\* (as every derived struct) from an array of its members in order
JsonRpcError(v) ==
    LET code == IF v.t = "obj" THEN Get(v, "code") ELSE Some(v.v[1])
        message == IF v.t = "obj" THEN Get(v, "message") ELSE Some(v.v[2])
    IN  IF ~(v.t = "obj" \/ (v.t = "arr" /\ Len(v.v) = 2)) THEN Err("invalid type")
        ELSE IF ~(code.some /\ IsI64(code.v)) THEN Err("code")
        ELSE IF ~(message.some /\ IsString(message.v)) THEN Err("message")
        ELSE Ok([code |-> code.v.v, message |-> message.v.v])

\* struct JsonRpcResponse { jsonrpc: String, id: u64, result: Option<Value>,
\* error: Option<JsonRpcError> } decoded by serde_json::from_value
JsonRpcResponse(v) ==
    LET Member(key, i) == IF v.t = "obj" THEN Get(v, key) ELSE Some(v.v[i])
        jsonrpc == Member("jsonrpc", 1)
        id == Member("id", 2)
        result == OptMember(Member("result", 3))
        errorM == OptMember(Member("error", 4))
        error == IF errorM.some THEN JsonRpcError(errorM.v) ELSE Ok(0)
    IN  IF ~(v.t = "obj" \/ (v.t = "arr" /\ Len(v.v) = 4)) THEN Err("invalid type")
        ELSE IF ~(jsonrpc.some /\ IsString(jsonrpc.v)) THEN Err("jsonrpc")
        ELSE IF ~(id.some /\ IsU64(id.v)) THEN Err("id")
        ELSE IF ~error.ok THEN Err("error")
        ELSE Ok([result |-> result,
                 error |-> IF errorM.some THEN Some(error.v) ELSE None])

\* SharkdClient::read_response on the line read_line returned
read_response(line) ==
    IF line.t = "badutf8" THEN Err("Failed to read from sharkd")
    ELSE IF line.t = "json" THEN Ok(line.v)
    ELSE Err("Failed to parse JSON from sharkd")

\* The part of SharkdClient::send_request after the request was flushed:
\* decode the line, then error before result
send_request_response(line) ==
    LET value == read_response(line)
        response == JsonRpcResponse(value.v)
    IN  IF ~value.ok THEN value
        ELSE IF ~response.ok THEN Err("Failed to parse sharkd response")
        ELSE IF response.v.error.some
             THEN ErrRemote(response.v.error.v.code, response.v.error.v.message)
        ELSE IF ~response.v.result.some THEN Err("No result in sharkd response")
        ELSE Ok(response.v.result.v)

\* The outcome of send_request when write_all or flush fails
\* a send_request that goes on as if the request had been written
send_request_write_ignored == Ok(JNull)

send_request_write_failed == Err("Failed to write to sharkd")

\* The request object send_request builds (params is an Option<Value>)
Request(id, method, params) ==
    IF params.some
    THEN JObj([jsonrpc |-> JStr("2.0"), id |-> JNum(id), method |-> JStr(method),
               params |-> params.v])
    ELSE JObj([jsonrpc |-> JStr("2.0"), id |-> JNum(id), method |-> JStr(method)])

(***************************************************************************)
(* serde decoding of the typed results (sharkd_client.rs, lines 10-182).   *)
(* A derived struct decodes from a JSON object by key or from an array by  *)
(* position; a member marked #[serde(default)] may be missing, an Option   *)
(* member may be missing or null.                                          *)
(***************************************************************************)
U8Max == 255

IsU8(x) == x.t = "num" /\ x.v >= 0 /\ x.v <= U8Max
\* (every number of the model is below 2^32, the upper limit of a u32)
IsU32(x) == x.t = "num" /\ x.v >= 0
IsF64(x) == x.t = "num"

StructShape(v, minLen, maxLen) ==
    v.t = "obj" \/ (v.t = "arr" /\ Len(v.v) >= minLen /\ Len(v.v) <= maxLen)
StructMember(v, key, i) ==
    IF v.t = "obj" THEN Get(v, key)
    ELSE IF i <= Len(v.v) THEN Some(v.v[i]) ELSE None

\* x is a JSON value a member of the scalar type T decodes from
IsT(T, x) ==
    CASE T = "String" -> IsString(x)
      [] T = "u64" -> IsU64(x)
      [] T = "u32" -> IsU32(x)
      [] T = "u8" -> IsU8(x)
      [] T = "f64" -> IsF64(x)

\* a required member of type T
Required(m, T) == IF m.some /\ IsT(T, m.v) THEN Ok(m.v.v) ELSE Err("member")
\* an Option<T> member (missing or null is None)
Optional(m, T) ==
    IF ~OptMember(m).some THEN Ok(None)
    ELSE IF IsT(T, m.v) THEN Ok(Some(m.v.v)) ELSE Err("member")
\* a #[serde(default)] member of type T
Defaulted(m, T, default) ==
    IF ~m.some THEN Ok(default)
    ELSE IF IsT(T, m.v) THEN Ok(m.v.v) ELSE Err("member")

\* from_value::<T> for the struct named T (defined after the structs)
RECURSIVE Decode(_, _)

\* Vec<T>: a JSON array whose every element decodes as a T
DecodeVec(v, T) ==
    IF v.t # "arr" THEN Err("invalid type")
    ELSE IF \E i \in 1..Len(v.v) : ~Decode(T, v.v[i]).ok THEN Err("element")
    ELSE Ok([i \in 1..Len(v.v) |-> Decode(T, v.v[i]).v])

IsStringVec(x) == x.t = "arr" /\ \A i \in 1..Len(x.v) : IsString(x.v[i])
StringVec(x) == [i \in 1..Len(x.v) |-> x.v[i].v]

\* struct Status
Status(v) ==
    LET frames == Optional(StructMember(v, "frames", 1), "u64")
        duration == Optional(StructMember(v, "duration", 2), "f64")
        filename == Optional(StructMember(v, "filename", 3), "String")
    IN  IF ~StructShape(v, 3, 3) \/ ~frames.ok \/ ~duration.ok \/ ~filename.ok
        THEN Err("Status")
        ELSE Ok([t |-> "Status", frames |-> frames.v, duration |-> duration.v,
                 filename |-> filename.v])

\* struct Frame
Frame(v) ==
    LET c == StructMember(v, "c", 1)
        num == Required(StructMember(v, "num", 2), "u32")
        bg == Optional(StructMember(v, "bg", 3), "String")
        fg == Optional(StructMember(v, "fg", 4), "String")
    IN  IF ~StructShape(v, 2, 4) \/ ~(c.some /\ IsStringVec(c.v))
           \/ ~num.ok \/ ~bg.ok \/ ~fg.ok
        THEN Err("Frame")
        ELSE Ok([columns |-> StringVec(c.v), number |-> num.v,
                 background |-> bg.v, foreground |-> fg.v])

\* struct StreamPayload
StreamPayload(v) ==
    LET n == Required(StructMember(v, "n", 1), "u64")
        d == Required(StructMember(v, "d", 2), "String")
        sdir == Required(StructMember(v, "s", 3), "u8")
    IN  IF ~StructShape(v, 3, 3) \/ ~n.ok \/ ~d.ok \/ ~sdir.ok
        THEN Err("StreamPayload")
        ELSE Ok([n |-> n.v, d |-> d.v, s |-> sdir.v])

\* struct StreamData
StreamData(v) ==
    LET shost == Defaulted(StructMember(v, "shost", 1), "String", "")
        sport == Defaulted(StructMember(v, "sport", 2), "String", "")
        chost == Defaulted(StructMember(v, "chost", 3), "String", "")
        cport == Defaulted(StructMember(v, "cport", 4), "String", "")
        sbytes == Defaulted(StructMember(v, "sbytes", 5), "u64", 0)
        cbytes == Defaulted(StructMember(v, "cbytes", 6), "u64", 0)
        pm == StructMember(v, "payloads", 7)
        payloads == IF pm.some THEN DecodeVec(pm.v, "StreamPayload") ELSE Ok(<<>>)
    IN  IF ~StructShape(v, 0, 7) \/ ~shost.ok \/ ~sport.ok \/ ~chost.ok
           \/ ~cport.ok \/ ~sbytes.ok \/ ~cbytes.ok \/ ~payloads.ok
        THEN Err("StreamData")
        ELSE Ok([t |-> "StreamData", shost |-> shost.v, sport |-> sport.v,
                 chost |-> chost.v, cport |-> cport.v, sbytes |-> sbytes.v,
                 cbytes |-> cbytes.v, payloads |-> payloads.v])

\* struct ProtocolNode (children are ProtocolNodes again)
ProtocolNode(v) ==
    LET proto == Required(StructMember(v, "proto", 1), "String")
        frames == Defaulted(StructMember(v, "frames", 2), "u64", 0)
        bytes == Defaulted(StructMember(v, "bytes", 3), "u64", 0)
        cm == StructMember(v, "protos", 4)
        children == IF cm.some THEN DecodeVec(cm.v, "ProtocolNode") ELSE Ok(<<>>)
    IN  IF ~StructShape(v, 1, 4) \/ ~proto.ok \/ ~frames.ok \/ ~bytes.ok
           \/ ~children.ok
        THEN Err("ProtocolNode")
        ELSE Ok([protocol |-> proto.v, frames |-> frames.v, bytes |-> bytes.v,
                 children |-> children.v])

\* struct Conversation
Conversation(v) ==
    LET saddr == Defaulted(StructMember(v, "saddr", 1), "String", "")
        daddr == Defaulted(StructMember(v, "daddr", 2), "String", "")
        sport == Optional(StructMember(v, "sport", 3), "String")
        dport == Optional(StructMember(v, "dport", 4), "String")
        rxf == Defaulted(StructMember(v, "rxf", 5), "u64", 0)
        rxb == Defaulted(StructMember(v, "rxb", 6), "u64", 0)
        txf == Defaulted(StructMember(v, "txf", 7), "u64", 0)
        txb == Defaulted(StructMember(v, "txb", 8), "u64", 0)
        start == Optional(StructMember(v, "start", 9), "f64")
        stop == Optional(StructMember(v, "stop", 10), "f64")
        filter == Optional(StructMember(v, "filter", 11), "String")
    IN  IF ~StructShape(v, 0, 11) \/ ~saddr.ok \/ ~daddr.ok \/ ~sport.ok
           \/ ~dport.ok \/ ~rxf.ok \/ ~rxb.ok \/ ~txf.ok \/ ~txb.ok
           \/ ~start.ok \/ ~stop.ok \/ ~filter.ok
        THEN Err("Conversation")
        ELSE Ok([saddr |-> saddr.v, daddr |-> daddr.v, sport |-> sport.v,
                 dport |-> dport.v, rxf |-> rxf.v, rxb |-> rxb.v, txf |-> txf.v,
                 txb |-> txb.v, start |-> start.v, stop |-> stop.v,
                 filter |-> filter.v])

\* struct Endpoint
Endpoint(v) ==
    LET host == Defaulted(StructMember(v, "host", 1), "String", "")
        port == Optional(StructMember(v, "port", 2), "String")
        rxf == Defaulted(StructMember(v, "rxf", 3), "u64", 0)
        rxb == Defaulted(StructMember(v, "rxb", 4), "u64", 0)
        txf == Defaulted(StructMember(v, "txf", 5), "u64", 0)
        txb == Defaulted(StructMember(v, "txb", 6), "u64", 0)
        filter == Optional(StructMember(v, "filter", 7), "String")
    IN  IF ~StructShape(v, 0, 7) \/ ~host.ok \/ ~port.ok \/ ~rxf.ok \/ ~rxb.ok
           \/ ~txf.ok \/ ~txb.ok \/ ~filter.ok
        THEN Err("Endpoint")
        ELSE Ok([host |-> host.v, port |-> port.v, rxf |-> rxf.v, rxb |-> rxb.v,
                 txf |-> txf.v, txb |-> txb.v, filter |-> filter.v])

Decode(T, v) ==
    CASE T = "Frame" -> Frame(v)
      [] T = "StreamPayload" -> StreamPayload(v)
      [] T = "ProtocolNode" -> ProtocolNode(v)
      [] T = "Conversation" -> Conversation(v)
      [] T = "Endpoint" -> Endpoint(v)

(***************************************************************************)
(* The query facade: SharkdClient::load .. capture_stats.  Every operation *)
(* is one send_request; <op>_request is the method and params it sends,    *)
(* <op>(r) what it makes of the outcome r of that send_request.            *)
(***************************************************************************)
Unit == [t |-> "unit"]

\* str::to_lowercase / to_uppercase on the protocol names of the model
Protocols == {"tcp", "TCP", "Udp"}
to_lowercase(p) == CASE p \in {"tcp", "TCP"} -> "tcp" [] p = "Udp" -> "udp"
to_uppercase(p) == CASE p \in {"tcp", "TCP"} -> "TCP" [] p = "Udp" -> "UDP"

\* a String built by format!: the pieces in order
JFmt(parts) == [t |-> "str", fmt |-> parts]

\* params that carry skip whatever its value
SkipLimit_always(skip, limit) == [skip |-> JNum(skip), limit |-> JNum(limit)]

SkipLimit(skip, limit) ==
    IF skip > 0 THEN [skip |-> JNum(skip), limit |-> JNum(limit)]
    ELSE [limit |-> JNum(limit)]

load_request(file_path) ==
    [method |-> "load", params |-> Some(JObj([file |-> JStr(file_path)]))]
status_request == [method |-> "status", params |-> None]
frames_request(skip, limit) ==
    [method |-> "frames", params |-> Some(JObj(SkipLimit(skip, limit)))]
frame_request(frame_num) ==
    [method |-> "frame",
     params |-> Some(JObj([frame |-> JNum(frame_num), proto |-> JBool(TRUE),
                           bytes |-> JBool(TRUE)]))]
check_filter_request(filter) ==
    [method |-> "check", params |-> Some(JObj([filter |-> JStr(filter)]))]
search_frames_request(filter, skip, limit) ==
    [method |-> "frames",
     params |-> Some(JObj(IF skip > 0
                          THEN [filter |-> JStr(filter), skip |-> JNum(skip),
                                limit |-> JNum(limit)]
                          ELSE [filter |-> JStr(filter), limit |-> JNum(limit)]))]
\* a follow request that passes the protocol on in the case it was given in
follow_stream_request_as_given(protocol, stream_id) ==
    [method |-> "follow",
     params |-> Some(JObj([follow |-> JStr(protocol),
                           filter |-> JFmt(<<protocol, ".stream==", stream_id>>)]))]

follow_stream_request(protocol, stream_id) ==
    [method |-> "follow",
     params |-> Some(JObj([follow |-> JStr(to_uppercase(protocol)),
                           filter |-> JFmt(<<to_lowercase(protocol), ".stream==",
                                             stream_id>>)]))]
\* a tap request for the protocol hierarchy alone
capture_stats_request_phs_only ==
    [method |-> "tap", params |-> Some(JObj([tap0 |-> JStr("phs")]))]

capture_stats_request ==
    [method |-> "tap",
     params |-> Some(JObj([tap0 |-> JStr("phs"), tap1 |-> JStr("conv:TCP"),
                           tap2 |-> JStr("conv:UDP"), tap3 |-> JStr("endpt:IPv4")]))]

load(r) ==
    IF ~r.ok THEN r
    ELSE LET st == Get(r.v, "status")
             err == Get(r.v, "err")
         IN  IF st.some /\ IsString(st.v) /\ st.v.v = "OK" THEN Ok(Unit)
             ELSE IF err.some
                  THEN [ok |-> FALSE, kind |-> "Failed to load file", err |-> err.v]
             ELSE Ok(Unit)

status(r) ==
    IF ~r.ok THEN r
    ELSE IF Status(r.v).ok THEN Status(r.v) ELSE Err("Failed to parse status")

frames(r) ==
    IF ~r.ok THEN r
    ELSE IF DecodeVec(r.v, "Frame").ok
         THEN Ok([t |-> "frames", v |-> DecodeVec(r.v, "Frame").v])
    ELSE Err("Failed to parse frames")

frame(r) == r

\* a check_filter that took a failed request for an invalid filter
check_filter_swallows(r) ==
    IF ~r.ok THEN Ok([t |-> "bool", v |-> FALSE])
    ELSE Ok([t |-> "bool", v |-> ~Get(r.v, "err").some])

check_filter(r) ==
    IF ~r.ok THEN r ELSE Ok([t |-> "bool", v |-> ~Get(r.v, "err").some])

\* a search_frames that knows the bare array only
search_frames_array_only(r) ==
    IF ~r.ok THEN r
    ELSE IF r.v.t # "arr" THEN Ok([t |-> "search", frames |-> <<>>, total |-> 0])
    ELSE IF ~DecodeVec(r.v, "Frame").ok THEN Err("Failed to parse frames")
    ELSE Ok([t |-> "search", frames |-> DecodeVec(r.v, "Frame").v,
             total |-> Len(DecodeVec(r.v, "Frame").v)])

search_frames(r) ==
    IF ~r.ok THEN r
    ELSE LET arr == IF r.v.t = "arr" THEN Some(r.v) ELSE Get(r.v, "frames")
             dec == DecodeVec(arr.v, "Frame")
         IN  IF ~arr.some THEN Ok([t |-> "search", frames |-> <<>>, total |-> 0])
             ELSE IF ~dec.ok THEN Err("Failed to parse frames")
             ELSE Ok([t |-> "search", frames |-> dec.v, total |-> Len(dec.v)])

follow_stream(r) ==
    IF ~r.ok THEN r
    ELSE IF StreamData(r.v).ok THEN StreamData(r.v)
    ELSE Err("Failed to parse stream data")

\* the closure find_tap of capture_stats: the first block tagged name
Min(S) == CHOOSE x \in S : \A y \in S : x <= y

\* a lookup that takes the block at the place the request named the tap at
find_tap_by_position(taps, name) ==
    LET i == CASE name = "phs" -> 1 [] name = "conv:TCP" -> 2
               [] name = "conv:UDP" -> 3 [] name = "endpt:IPv4" -> 4
    IN  IF i <= Len(taps) THEN Some(taps[i]) ELSE None

\* taps.iter().find(..): the first tap of that name
find_tap(taps, name) ==
    LET hits == {i \in 1..Len(taps) :
                    /\ Get(taps[i], "tap").some
                    /\ IsString(Get(taps[i], "tap").v)
                    /\ Get(taps[i], "tap").v.v = name}
    IN  IF hits = {} THEN None ELSE Some(taps[Min(hits)])

\* a tap_part that keeps the elements of the payload that do decode
tap_part_keeps_decodable(taps, name, field, T) ==
    LET tap == find_tap(taps, name)
        member == IF tap.some THEN Get(tap.v, field) ELSE None
        good == IF member.some /\ member.v.t = "arr"
                THEN SelectSeq(member.v.v, LAMBDA x : Decode(T, x).ok) ELSE <<>>
    IN  [i \in 1..Len(good) |-> Decode(T, good[i]).v]

\* find_tap(name).and_then(get(field)).and_then(from_value.ok()).unwrap_or_default()
tap_part(taps, name, field, T) ==
    LET tap == find_tap(taps, name)
        member == IF tap.some THEN Get(tap.v, field) ELSE None
    IN  IF member.some /\ DecodeVec(member.v, T).ok
        THEN DecodeVec(member.v, T).v ELSE <<>>

CaptureStats(ph, tcp, udp, ep) ==
    [t |-> "CaptureStats", protocol_hierarchy |-> ph, tcp_conversations |-> tcp,
     udp_conversations |-> udp, endpoints |-> ep]

\* a capture_stats that fails when one of its taps is not in the response
capture_stats_needs_all(r) ==
    IF ~r.ok THEN r
    ELSE LET tm == Get(r.v, "taps")
         IN  IF ~(tm.some /\ tm.v.t = "arr") \/ Len(tm.v.v) < 4
             THEN Err("Failed to parse tap result")
             ELSE Ok(CaptureStats(
                      tap_part(tm.v.v, "phs", "protos", "ProtocolNode"),
                      tap_part(tm.v.v, "conv:TCP", "convs", "Conversation"),
                      tap_part(tm.v.v, "conv:UDP", "convs", "Conversation"),
                      tap_part(tm.v.v, "endpt:IPv4", "hosts", "Endpoint")))

capture_stats(r) ==
    IF ~r.ok THEN r
    ELSE LET tm == Get(r.v, "taps")
         IN  IF ~(tm.some /\ tm.v.t = "arr")
             THEN Ok(CaptureStats(<<>>, <<>>, <<>>, <<>>))
             ELSE Ok(CaptureStats(
                      tap_part(tm.v.v, "phs", "protos", "ProtocolNode"),
                      tap_part(tm.v.v, "conv:TCP", "convs", "Conversation"),
                      tap_part(tm.v.v, "conv:UDP", "convs", "Conversation"),
                      tap_part(tm.v.v, "endpt:IPv4", "hosts", "Endpoint")))

\* a new that took any result for a working engine
new_unverified(r) == IF ~r.ok THEN r ELSE Ok([t |-> "client"])

\* SharkdClient::new after the handshake request returned r
new(r) ==
    IF ~r.ok THEN r
    ELSE IF Get(r.v, "frames").some \/ Get(r.v, "columns").some
         THEN Ok([t |-> "client"])
    ELSE Err("Failed to verify sharkd is working")

\* a SharkdClient::new whose first request asks for frames
CallRequest_handshake_frames(c) ==
    CASE c.op = "new" -> frames_request(0, 1)
      [] c.op = "load" -> load_request(c.file_path)
      [] c.op = "status" -> status_request
      [] c.op = "frames" -> frames_request(c.skip, c.limit)
      [] c.op = "frame" -> frame_request(c.frame_num)
      [] c.op = "check_filter" -> check_filter_request(c.filter)
      [] c.op = "search_frames" -> search_frames_request(c.filter, c.skip, c.limit)
      [] c.op = "follow_stream" -> follow_stream_request(c.protocol, c.stream_id)
      [] c.op = "capture_stats" -> capture_stats_request

\* A call is a record [op |-> name, arguments...]; op "new" is the handshake
\* request of SharkdClient::new
CallRequest(c) ==
    CASE c.op = "new" -> status_request
      [] c.op = "load" -> load_request(c.file_path)
      [] c.op = "status" -> status_request
      [] c.op = "frames" -> frames_request(c.skip, c.limit)
      [] c.op = "frame" -> frame_request(c.frame_num)
      [] c.op = "check_filter" -> check_filter_request(c.filter)
      [] c.op = "search_frames" -> search_frames_request(c.filter, c.skip, c.limit)
      [] c.op = "follow_stream" -> follow_stream_request(c.protocol, c.stream_id)
      [] c.op = "capture_stats" -> capture_stats_request

CallResult(c, r) ==
    CASE c.op = "new" -> new(r)
      [] c.op = "load" -> load(r)
      [] c.op = "status" -> status(r)
      [] c.op = "frames" -> frames(r)
      [] c.op = "frame" -> frame(r)
      [] c.op = "check_filter" -> check_filter(r)
      [] c.op = "search_frames" -> search_frames(r)
      [] c.op = "follow_stream" -> follow_stream(r)
      [] c.op = "capture_stats" -> capture_stats(r)

(***************************************************************************)
(* The commands of lib.rs and the handlers of http_bridge.rs.  Each runs   *)
(* with the global bridge mutex held and is a sequence of facade calls;    *)
(* Step gives, from the command c, the outcomes rs of the calls made so    *)
(* far and the content of the global slot, what the command does next:     *)
(* another call, SharkdClient::new, or its return value.                   *)
(***************************************************************************)
Call(c) == [t |-> "call", call |-> c]
EnterNew == [t |-> "new"]
\* return r; slot says what the command assigned to *client_guard before:
\* "keep" (no assignment), "client" (Some(client), the client new returned)
\* or "none" (None)
Done(r) == [t |-> "done", res |-> r, slot |-> "keep"]
Stored(r) == [t |-> "done", res |-> r, slot |-> "client"]
\* the body of an HTTP response
Json(x) == [t |-> "Json", v |-> x]

\* Option::unwrap_or
unwrap_or(o, d) == IF o.some THEN o.v ELSE d

\* cols.get(i).cloned().unwrap_or_default() (i counts from 0)
Column(cols, i) == IF i + 1 <= Len(cols) THEN cols[i + 1] ELSE ""

\* impl From<Frame> for FrameData
FrameData(f) ==
    [number |-> f.number, time |-> Column(f.columns, 1),
     source |-> Column(f.columns, 2), destination |-> Column(f.columns, 3),
     protocol |-> Column(f.columns, 4), length |-> Column(f.columns, 5),
     info |-> Column(f.columns, 6), background |-> f.background,
     foreground |-> f.foreground]

FramesResult(fs, total) ==
    [t |-> "FramesResult", frames |-> [i \in 1..Len(fs) |-> FrameData(fs[i])],
     total |-> total]
LoadResult(success, frame_count, duration, error) ==
    [t |-> "LoadResult", success |-> success, frame_count |-> frame_count,
     duration |-> duration, error |-> error]
SearchResult(fs, total, filter) ==
    [t |-> "SearchResult", frames |-> [i \in 1..Len(fs) |-> FrameData(fs[i])],
     total_matching |-> total, filter_applied |-> filter]

\* an init_sharkd that does not look at the slot
init_sharkd_unchecked(rs, slotv) ==
    IF Len(rs) = 0 THEN EnterNew
    ELSE IF ~rs[1].ok THEN Done(rs[1])
    ELSE Stored(Ok(JStr("Sharkd initialized successfully")))

init_sharkd(rs, slotv) ==
    IF Len(rs) = 0
    THEN IF slotv # 0 THEN Done(Ok(JStr("Sharkd already initialized")))
         ELSE EnterNew
    ELSE IF ~rs[1].ok THEN Done(rs[1])
    ELSE Stored(Ok(JStr("Sharkd initialized successfully")))

\* the thread run() spawns in setup
\* a startup thread that stores whatever new left behind
startup_stores_unverified(rs) ==
    IF Len(rs) = 0 THEN EnterNew
    ELSE Stored(Unit)

startup(rs) ==
    IF Len(rs) = 0 THEN EnterNew
    ELSE IF rs[1].ok THEN Stored(Unit)
    ELSE Done([t |-> "emit", event |-> "sharkd-error", e |-> rs[1]])

\* a load_pcap that reads the status whatever the load returned
load_pcap_status_regardless(c, rs) ==
    IF Len(rs) = 0 THEN Call([op |-> "load", file_path |-> c.path])
    ELSE IF Len(rs) = 1 THEN Call([op |-> "status"])
    ELSE IF ~rs[1].ok
         THEN Done(Ok(LoadResult(FALSE, 0, None, Some(rs[1]))))
    ELSE IF ~rs[2].ok THEN Done(rs[2])
    ELSE Done(Ok(LoadResult(TRUE, unwrap_or(rs[2].v.frames, 0),
                            rs[2].v.duration, None)))

load_pcap(c, rs) ==
    IF Len(rs) = 0 THEN Call([op |-> "load", file_path |-> c.path])
    ELSE IF ~rs[1].ok
         THEN Done(Ok(LoadResult(FALSE, 0, None, Some(rs[1]))))
    ELSE IF Len(rs) = 1 THEN Call([op |-> "status"])
    ELSE IF ~rs[2].ok THEN Done(rs[2])
    ELSE Done(Ok(LoadResult(TRUE, unwrap_or(rs[2].v.frames, 0),
                            rs[2].v.duration, None)))

get_frames(c, rs) ==
    IF Len(rs) = 0 THEN Call([op |-> "frames", skip |-> c.skip, limit |-> c.limit])
    ELSE IF ~rs[1].ok THEN Done(rs[1])
    ELSE IF Len(rs) = 1 THEN Call([op |-> "status"])
    ELSE IF ~rs[2].ok THEN Done(rs[2])
    ELSE Done(Ok(FramesResult(rs[1].v.v, unwrap_or(rs[2].v.frames, 0))))

\* a get_status that emptied the slot when its request failed
get_status_clears(rs) ==
    IF Len(rs) = 0 THEN Call([op |-> "status"])
    ELSE IF rs[1].ok THEN Done(rs[1])
    ELSE [t |-> "done", res |-> rs[1], slot |-> "none"]

get_status(rs) ==
    IF Len(rs) = 0 THEN Call([op |-> "status"]) ELSE Done(rs[1])

check_filter_cmd(c, rs) ==
    IF Len(rs) = 0 THEN Call([op |-> "check_filter", filter |-> c.filter])
    ELSE Done(rs[1])

apply_filter(c, rs) ==
    LET checked == c.filter # ""
        n == IF checked THEN 2 ELSE 1
    IN  IF checked /\ Len(rs) = 0
        THEN Call([op |-> "check_filter", filter |-> c.filter])
        ELSE IF checked /\ ~rs[1].ok THEN Done(rs[1])
        ELSE IF checked /\ ~rs[1].v.v THEN Done(Err("Invalid filter expression"))
        ELSE IF Len(rs) < n THEN Call([op |-> "status"])
        ELSE IF ~rs[n].ok THEN Done(rs[n])
        ELSE Done(Ok(JNum(unwrap_or(rs[n].v.frames, 0))))

get_frame_details(c, rs) ==
    IF Len(rs) = 0 THEN Call([op |-> "frame", frame_num |-> c.frame_num])
    ELSE Done(rs[1])

get_frames_handler(c, rs) ==
    IF Len(rs) = 0 THEN Call([op |-> "frames", skip |-> c.skip, limit |-> c.limit])
    ELSE IF ~rs[1].ok THEN Done(Json(FramesResult(<<>>, 0)))
    ELSE IF Len(rs) = 1 THEN Call([op |-> "status"])
    ELSE IF ~rs[2].ok THEN Done(Json(FramesResult(<<>>, 0)))
    ELSE Done(Json(FramesResult(rs[1].v.v, unwrap_or(rs[2].v.frames, 0))))

get_frame_details_handler(c, rs) ==
    IF Len(rs) = 0 THEN Call([op |-> "frame", frame_num |-> c.frame_num])
    ELSE IF rs[1].ok THEN Done(Json(rs[1].v))
    ELSE Done(Json(JObj([error |-> JStr("Failed to get frame details")])))

\* a handler that reports a filter valid when check_filter failed
check_filter_handler_valid_on_failure(c, rs) ==
    IF Len(rs) = 0 THEN Call([op |-> "check_filter", filter |-> c.filter])
    ELSE IF rs[1].ok THEN Done(Json([valid |-> rs[1].v.v]))
    ELSE Done(Json([valid |-> TRUE]))

check_filter_handler(c, rs) ==
    IF Len(rs) = 0 THEN Call([op |-> "check_filter", filter |-> c.filter])
    ELSE IF rs[1].ok THEN Done(Json([valid |-> rs[1].v.v]))
    ELSE Done(Json([valid |-> FALSE]))

\* a search_handler that searches whatever check_filter returned
search_handler_searches_anyway(c, rs) ==
    IF Len(rs) = 0 THEN Call([op |-> "check_filter", filter |-> c.filter])
    ELSE IF Len(rs) = 1
         THEN Call([op |-> "search_frames", filter |-> c.filter, skip |-> c.skip,
                    limit |-> c.limit])
    ELSE IF rs[1].ok /\ ~rs[1].v.v THEN Done(Json(SearchResult(<<>>, 0, c.filter)))
    ELSE IF rs[2].ok
         THEN Done(Json(SearchResult(rs[2].v.frames, rs[2].v.total, c.filter)))
    ELSE Done(Json(SearchResult(<<>>, 0, c.filter)))

search_handler(c, rs) ==
    IF Len(rs) = 0 THEN Call([op |-> "check_filter", filter |-> c.filter])
    ELSE IF rs[1].ok /\ ~rs[1].v.v THEN Done(Json(SearchResult(<<>>, 0, c.filter)))
    ELSE IF Len(rs) = 1
         THEN Call([op |-> "search_frames", filter |-> c.filter, skip |-> c.skip,
                    limit |-> c.limit])
    ELSE IF rs[2].ok
         THEN Done(Json(SearchResult(rs[2].v.frames, rs[2].v.total, c.filter)))
    ELSE Done(Json(SearchResult(<<>>, 0, c.filter)))

\* one StreamSegment of stream_handler; the rendering of the payload bytes is
\* kept as the pair of the format class and the base64 text
\* a segment labelled the other way round
StreamSegment_swapped(p, format) ==
    [direction |-> IF p.s = 0 THEN "server_to_client" ELSE "client_to_server",
     size |-> p.n,
     data |-> <<IF format \in {"hex", "raw"} THEN format ELSE "ascii", p.d>>]

StreamSegment(p, format) ==
    [direction |-> IF p.s = 0 THEN "client_to_server" ELSE "server_to_client",
     size |-> p.n,
     data |-> <<IF format \in {"hex", "raw"} THEN format ELSE "ascii", p.d>>]

StreamResponse(sd, format) ==
    LET segments == [i \in 1..Len(sd.payloads) |->
                        StreamSegment(sd.payloads[i], format)]
    IN  [t |-> "StreamResponse",
         server |-> [host |-> sd.shost, port |-> sd.sport],
         client |-> [host |-> sd.chost, port |-> sd.cport],
         server_bytes |-> sd.sbytes, client_bytes |-> sd.cbytes,
         segments |-> segments,
         combined_text |-> IF format = "ascii" \/ format = ""
                           THEN Some(segments) ELSE None]

EmptyStreamResponse ==
    [t |-> "StreamResponse", server |-> [host |-> "", port |-> ""],
     client |-> [host |-> "", port |-> ""], server_bytes |-> 0,
     client_bytes |-> 0, segments |-> <<>>, combined_text |-> None]

stream_handler(c, rs) ==
    IF Len(rs) = 0
    THEN Call([op |-> "follow_stream", protocol |-> c.protocol,
               stream_id |-> c.stream_id])
    ELSE IF rs[1].ok THEN Done(Json(StreamResponse(rs[1].v, c.format)))
    ELSE Done(Json(EmptyStreamResponse))

RECURSIVE count_protocols(_)
count_protocols(nodes) ==
    IF Len(nodes) = 0 THEN 0
    ELSE 1 + count_protocols(Head(nodes).children) + count_protocols(Tail(nodes))

CaptureStatsResponse(st, stats) ==
    [t |-> "CaptureStatsResponse",
     summary |-> [total_frames |-> IF st.ok THEN unwrap_or(st.v.frames, 0) ELSE 0,
                  duration |-> IF st.ok THEN st.v.duration ELSE None,
                  protocol_count |-> count_protocols(stats.protocol_hierarchy),
                  tcp_conversation_count |-> Len(stats.tcp_conversations),
                  udp_conversation_count |-> Len(stats.udp_conversations),
                  endpoint_count |-> Len(stats.endpoints)],
     stats |-> stats]

EmptyCaptureStatsResponse ==
    [t |-> "CaptureStatsResponse",
     summary |-> [total_frames |-> 0, duration |-> None, protocol_count |-> 0,
                  tcp_conversation_count |-> 0, udp_conversation_count |-> 0,
                  endpoint_count |-> 0],
     stats |-> CaptureStats(<<>>, <<>>, <<>>, <<>>)]

capture_stats_handler(rs) ==
    IF Len(rs) = 0 THEN Call([op |-> "status"])
    ELSE IF Len(rs) = 1 THEN Call([op |-> "capture_stats"])
    ELSE IF rs[2].ok THEN Done(Json(CaptureStatsResponse(rs[1], rs[2].v)))
    ELSE Done(Json(EmptyCaptureStatsResponse))

\* a caller that holds a &SharkdClient and makes one facade call
direct(c, rs) == IF Len(rs) = 0 THEN Call(c.call) ELSE Done(rs[1])

TauriCommands ==
    {"load_pcap", "get_frames", "get_status", "check_filter", "apply_filter",
     "get_frame_details"}
HttpHandlers ==
    {"get_frames_handler", "get_frame_details_handler", "check_filter_handler",
     "search_handler", "stream_handler", "capture_stats_handler"}

\* what a command returns when the global slot holds no client
NotInitialized(c) ==
    CASE c.name = "load_pcap"
           -> Err("Sharkd not initialized. Call init_sharkd first.")
      [] c.name \in TauriCommands \ {"load_pcap"} -> Err("Sharkd not initialized")
      [] c.name = "get_frames_handler" -> Json(FramesResult(<<>>, 0))
      [] c.name = "get_frame_details_handler"
           -> Json(JObj([error |-> JStr("Failed to get frame details")]))
      [] c.name = "check_filter_handler" -> Json([valid |-> FALSE])
      [] c.name = "search_handler" -> Json(SearchResult(<<>>, 0, c.filter))
      [] c.name = "stream_handler" -> Json(EmptyStreamResponse)
      [] c.name = "capture_stats_handler" -> Json(EmptyCaptureStatsResponse)

Step(c, rs, slotv) ==
    CASE c.name = "init_sharkd" -> init_sharkd(rs, slotv)
      [] c.name = "startup" -> startup(rs)
      [] c.name = "direct" -> direct(c, rs)
      [] c.name \in TauriCommands \cup HttpHandlers /\ slotv = 0
           -> Done(NotInitialized(c))
      [] c.name = "load_pcap" /\ slotv # 0 -> load_pcap(c, rs)
      [] c.name = "get_frames" /\ slotv # 0 -> get_frames(c, rs)
      [] c.name = "get_status" /\ slotv # 0 -> get_status(rs)
      [] c.name = "check_filter" /\ slotv # 0 -> check_filter_cmd(c, rs)
      [] c.name = "apply_filter" /\ slotv # 0 -> apply_filter(c, rs)
      [] c.name = "get_frame_details" /\ slotv # 0 -> get_frame_details(c, rs)
      [] c.name = "get_frames_handler" /\ slotv # 0 -> get_frames_handler(c, rs)
      [] c.name = "get_frame_details_handler" /\ slotv # 0
           -> get_frame_details_handler(c, rs)
      [] c.name = "check_filter_handler" /\ slotv # 0 -> check_filter_handler(c, rs)
      [] c.name = "search_handler" /\ slotv # 0 -> search_handler(c, rs)
      [] c.name = "stream_handler" /\ slotv # 0 -> stream_handler(c, rs)
      [] c.name = "capture_stats_handler" /\ slotv # 0 -> capture_stats_handler(rs)

(***************************************************************************)
(* The engine.  It answers the requests on its input pipe one at a time,   *)
(* in the order it receives them, with one line each.                      *)
(***************************************************************************)
ErrorObject(code, message) == JObj([code |-> JNum(code), message |-> JStr(message)])

\* a response object; result and error are Options
Response(id, result, error) ==
    IF result.some /\ error.some
    THEN JObj([jsonrpc |-> JStr("2.0"), id |-> JNum(id), result |-> result.v,
               error |-> error.v])
    ELSE IF result.some
    THEN JObj([jsonrpc |-> JStr("2.0"), id |-> JNum(id), result |-> result.v])
    ELSE IF error.some
    THEN JObj([jsonrpc |-> JStr("2.0"), id |-> JNum(id), error |-> error.v])
    ELSE JObj([jsonrpc |-> JStr("2.0"), id |-> JNum(id)])

RemoteCode == -32600
RemoteMessage == "Invalid request"

Frame1 == JObj([c |-> JArr(<<JStr("1"), JStr("0.5")>>), num |-> JNum(1)])

\* results an engine gives to a request of the method
Results(method) ==
    CASE method = "status"
           -> {JObj([frames |-> JNum(2), duration |-> JNum(1)]),
               JObj([columns |-> JArr(<<>>)]), JObj(EmptyObj)}
      [] method = "load"
           -> {JObj([status |-> JStr("OK")]), JObj([err |-> JNum(2)]),
               JObj([status |-> JStr("OK"), err |-> JNum(2)]), JObj(EmptyObj)}
      [] method = "frames" -> {JArr(<<Frame1>>), JObj([frames |-> JArr(<<Frame1>>)])}
      [] method = "frame" -> {JObj([tree |-> JArr(<<>>), bytes |-> JStr("AA==")])}
      [] method = "check"
           -> {JObj([status |-> JStr("OK")]), JObj([err |-> JStr("bad filter")])}
      [] method = "follow"
           -> {JObj([shost |-> JStr("10.0.0.1"), sport |-> JStr("80"),
                     payloads |-> JArr(<<JObj([n |-> JNum(1), d |-> JStr("AA=="),
                                                s |-> JNum(0)]),
                                          JObj([n |-> JNum(1), d |-> JStr("AQ=="),
                                                s |-> JNum(1)])>>)]),
               JObj([payloads |-> JArr(<<JObj([n |-> JNum(2), d |-> JStr("AQI="),
                                                s |-> JNum(1)]),
                                          JObj([n |-> JNum(1), d |-> JStr("AA=="),
                                                s |-> JNum(0)])>>)])}
      [] method = "tap"
           -> {JObj([taps |-> JArr(<<
                  JObj([tap |-> JStr("conv:TCP"), type |-> JStr("conv"),
                        convs |-> JArr(<<JObj([saddr |-> JStr("10.0.0.1")])>>)]),
                  JObj([tap |-> JStr("phs"), type |-> JStr("phs"),
                        protos |-> JArr(<<JObj([proto |-> JStr("eth")])>>)])>>)])}

\* lines that make the request fail: not JSON, not UTF-8, a remote error, a
\* response with neither result nor error
Failures(id) ==
    {GarbageLine, BadUtf8Line,
     JsonLine(Response(id, None, Some(ErrorObject(RemoteCode, RemoteMessage)))),
     JsonLine(Response(id, None, None))}

\* the lines the engine may answer the request line req with
Answers(req) ==
    {JsonLine(Response(req.v.id.v, Some(r), None)) : r \in Results(req.v.method.v)}
        \cup Failures(req.v.id.v)

(***************************************************************************)
(* The binary locator and the install-health probe (sharkd_client.rs).     *)
(* A host h is what they see of the machine: the platform the program was  *)
(* built for, what current_exe returns, the files that exist, whether      *)
(* read_dir lists the executable's directory, what `which sharkd` or       *)
(* `where sharkd` prints and how `sharkd -v` ends.  A path is the sequence *)
(* of its components; the trail (debug_info) is a sequence of entries, one *)
(* per push, tagged by the format string of the push.                      *)
(***************************************************************************)
get_target_triple(h) ==
    IF h.windows THEN "x86_64-pc-windows-msvc" ELSE "x86_64-unknown-linux-gnu"

\* Path::parent and Path::join
parent(p) == SubSeq(p, 1, Len(p) - 1)
join(dir, name) == Append(dir, name)

\* str::contains("target/debug") on a path: the two components in a row
contains(p, a, b) == \E i \in 1..(Len(p) - 1) : p[i] = a /\ p[i + 1] = b

is_production_mode(exe_path) ==
    ~contains(exe_path, "target", "debug") /\ ~contains(exe_path, "target", "release")

\* a candidate list that puts the raw binaries before the wrapper
bundled_sharkd_candidates_raw_first(h, exe_dir) ==
    IF h.windows
    THEN <<join(exe_dir, "sharkd.exe"),
           join(exe_dir, "sharkd-" \o get_target_triple(h) \o ".exe")>>
    ELSE <<join(exe_dir, "sharkd-" \o get_target_triple(h)),
           join(exe_dir, "sharkd"),
           join(exe_dir, "sharkd-wrapper-" \o get_target_triple(h))>>

bundled_sharkd_candidates(h, exe_dir) ==
    IF h.windows
    THEN <<join(exe_dir, "sharkd-" \o get_target_triple(h) \o ".exe"),
           join(exe_dir, "sharkd.exe")>>
    ELSE <<join(exe_dir, "sharkd-wrapper-" \o get_target_triple(h)),
           join(exe_dir, "sharkd-" \o get_target_triple(h)),
           join(exe_dir, "sharkd")>>

\* the two fixed install paths add_windows_path_candidates appends
ProgramFilesPaths ==
    <<(<<"C:", "Program Files", "Wireshark", "sharkd.exe">>),
      (<<"C:", "Program Files (x86)", "Wireshark", "sharkd.exe">>)>>

\* where sharkd: every non-empty line is a candidate; then the fixed paths
add_windows_path_candidates(h) ==
    LET w == h.lookup
    IN  CASE w.st = "ok" /\ w.out = <<>> ->
               [paths |-> ProgramFilesPaths,
                debug |-> <<[k |-> "'where sharkd' succeeded but returned no paths"]>>]
          [] w.st = "ok" /\ w.out # <<>> ->
               [paths |-> w.out \o ProgramFilesPaths,
                debug |-> <<[k |-> "'where sharkd' found {} path(s)",
                             n |-> Len(w.out)]>>]
          [] w.st = "fail" ->
               [paths |-> ProgramFilesPaths,
                debug |-> <<[k |-> "'where sharkd' did not find sharkd in PATH"]>>]
          [] w.st = "err" ->
               [paths |-> ProgramFilesPaths,
                debug |-> <<[k |-> "Failed to execute 'where sharkd': {}"]>>]

\* the filter with the BTreeSet: the first occurrence of each path is kept
RECURSIVE unique(_)
unique(paths) ==
    IF paths = <<>> THEN <<>>
    ELSE LET front == unique(SubSeq(paths, 1, Len(paths) - 1))
             last == paths[Len(paths)]
         IN  IF \E i \in 1..Len(front) : front[i] = last THEN front
             ELSE Append(front, last)

\* the candidates of the system, and what the discovery adds to the trail
system_sharkd_candidates(h) ==
    LET w == h.lookup
        found ==
            IF h.windows THEN add_windows_path_candidates(h)
            ELSE CASE w.st = "ok" /\ w.out # <<>> ->
                        [paths |-> <<w.out[1]>>, debug |-> <<>>]
                   [] w.st = "ok" /\ w.out = <<>> ->
                        [paths |-> <<>>,
                         debug |-> <<[k |-> "'which sharkd' returned empty output"]>>]
                   [] w.st = "fail" ->
                        [paths |-> <<>>,
                         debug |-> <<[k |-> "'which sharkd' did not find sharkd in PATH"]>>]
                   [] w.st = "err" ->
                        [paths |-> <<>>,
                         debug |-> <<[k |-> "Failed to execute 'which sharkd': {}"]>>]
    IN  [paths |-> unique(found.paths), debug |-> found.debug]

\* one of the two for loops of find_sharkd_with_debug: each candidate is
\* probed and the probe recorded, up to the first that exists
RECURSIVE probe(_, _, _, _)
probe(h, candidates, what, debug_info) ==
    IF candidates = <<>> THEN [found |-> None, debug |-> debug_info]
    ELSE LET candidate == Head(candidates)
             exists == candidate \in h.files
             pushed == Append(debug_info,
                          [k |-> what, path |-> candidate, exists |-> exists])
         IN  IF exists THEN [found |-> Some(candidate), debug |-> pushed]
             ELSE probe(h, Tail(candidates), what, pushed)

SharkdNotFound ==
    "Sharkd not found. PacketPilot expects bundled sharkd or a Wireshark install with sharkd in PATH."

\* is_production of find_sharkd_with_debug and get_install_health: false
\* when current_exe fails
is_production(exe) == exe.ok /\ is_production_mode(exe.v)

\* a discovery that starts a new trail
fallback_trail_restarts(debug_info) ==
    <<[k |-> "Falling back to system sharkd discovery..."]>>

\* the trail when the system discovery begins
fallback_trail(debug_info) ==
    Append(debug_info, [k |-> "Falling back to system sharkd discovery..."])

\* Ok((path, debug_info)), or Err of the message whose first line is
\* SharkdNotFound and whose rest is the trail
find_sharkd_with_debug(h) ==
    LET exe == h.current_exe
        production == is_production(exe)
        exe_dir == IF exe.ok THEN Some(parent(exe.v)) ELSE None
        d1 == <<[k |-> "=== Sharkd Detection Debug ==="]>>
              \o (IF exe.ok
                  THEN <<[k |-> "Current executable: {:?}", path |-> exe.v],
                         [k |-> "Is production mode: {}", v |-> production],
                         [k |-> "Executable directory: {:?}", path |-> exe_dir.v],
                         [k |-> "Target triple: {}", v |-> get_target_triple(h)]>>
                  ELSE <<[k |-> "Failed to get current executable: {}"]>>)
        d2 == d1 \o (IF exe_dir.some /\ h.listable
                     THEN <<[k |-> "Files in exe_dir ({} total): {:?}"]>>
                     ELSE <<>>)
        bundled == IF production /\ exe_dir.some
                   THEN probe(h, bundled_sharkd_candidates(h, exe_dir.v),
                              "Checking bundled path: {:?} (exists: {})", d2)
                   ELSE [found |-> None,
                         debug |-> IF production THEN d2
                                   ELSE Append(d2,
                                     [k |-> "Development mode - bundled path checks are optional"])]
        sys == system_sharkd_candidates(h)
        system == probe(h, sys.paths, "Checking system path: {:?} (exists: {})",
                        fallback_trail(bundled.debug) \o sys.debug)
    IN  IF bundled.found.some
        THEN Ok([path |-> bundled.found.v, debug |-> bundled.debug])
        ELSE IF system.found.some
        THEN Ok([path |-> system.found.v, debug |-> system.debug])
        ELSE [ok |-> FALSE, kind |-> SharkdNotFound, debug |-> system.debug]

\* find_sharkd: the path alone
find_sharkd(h) ==
    LET r == find_sharkd_with_debug(h)
    IN  IF r.ok THEN Ok(r.v.path) ELSE r

InstallIssue(code, message, path) ==
    [code |-> code, message |-> message, path |-> path]

windows_required_runtime_files ==
    <<"libwireshark.dll", "libwiretap.dll", "libwsutil.dll", "libglib-2.0-0.dll",
      "libgcrypt-20.dll">>

\* the issues of the Windows bundle; nothing on the other platforms
validate_windows_runtime(h, exe_dir, sharkd_path) ==
    IF ~h.windows THEN <<>>
    ELSE IF sharkd_path \notin h.files
    THEN <<InstallIssue("missing_sharkd", "Bundled sharkd executable is missing.",
                        Some(sharkd_path))>>
    ELSE LET req == windows_required_runtime_files
             missing == SelectSeq(req, LAMBDA f : join(exe_dir, f) \notin h.files)
             deps == [i \in 1..Len(missing) |->
                        InstallIssue("missing_dependency",
                                     "Required runtime library is missing: "
                                         \o missing[i],
                                     Some(join(exe_dir, missing[i])))]
         IN  deps \o
             (IF join(exe_dir, "glib-2.0-0.dll") \in h.files
                 /\ join(exe_dir, "libglib-2.0-0.dll") \notin h.files
              THEN <<InstallIssue("invalid_bundle",
                       "Found glib-2.0-0.dll but missing libglib-2.0-0.dll expected by bundled sharkd.",
                       Some(exe_dir))>>
              ELSE <<>>)

\* Command::new(sharkd_path).arg("-v").status(), run on Windows when no
\* issue was found before it
version_check(h, sharkd_path) ==
    CASE h.version = "ok" -> <<>>
      [] h.version = "nonzero" ->
           <<InstallIssue("spawn_failed", "sharkd check returned non-zero status: {}",
                          Some(sharkd_path))>>
      [] h.version = "err" ->
           <<InstallIssue("spawn_failed",
                          "sharkd failed to start; installation may be incomplete.",
                          Some(sharkd_path))>>
      [] h.version = "err_dll" ->
           <<InstallIssue("spawn_failed", "sharkd failed to start: {}",
                          Some(sharkd_path))>>

InstallHealthStatus(ok, issues, checked_paths, recommended_action) ==
    [ok |-> ok, issues |-> issues, checked_paths |-> checked_paths,
     recommended_action |-> recommended_action]

\* a probe that reports success whatever it found
health_ok_always(issues) == TRUE

\* ok: issues.is_empty()
health_ok(issues) == issues = <<>>

get_install_health(h) ==
    LET exe == h.current_exe
        exe_dir == IF exe.ok THEN Some(parent(exe.v)) ELSE None
        production == is_production(exe)
        checked_paths ==
            (IF exe_dir.some THEN bundled_sharkd_candidates(h, exe_dir.v) ELSE <<>>)
            \o system_sharkd_candidates(h).paths
        found == find_sharkd_with_debug(h)
    IN  IF ~found.ok
        THEN InstallHealthStatus(FALSE,
                <<InstallIssue("missing_sharkd",
                    "Could not find sharkd binary in bundled or system locations.",
                    None)>>,
                checked_paths,
                "repair (" \o found.kind \o ")")
        ELSE LET sharkd_path == found.v.path
                 bundled_primary ==
                     join(exe_dir.v, "sharkd-" \o get_target_triple(h) \o ".exe")
                 bundle ==
                     IF h.windows /\ production /\ exe_dir.some
                     THEN validate_windows_runtime(h, exe_dir.v, bundled_primary)
                          \o (IF sharkd_path # bundled_primary
                              THEN <<InstallIssue("invalid_bundle",
                                       "Bundled sharkd is missing or invalid; PacketPilot is currently relying on a system sharkd fallback.",
                                       Some(sharkd_path))>>
                              ELSE <<>>)
                     ELSE <<>>
                 issues == IF h.windows /\ bundle = <<>>
                           THEN version_check(h, sharkd_path)
                           ELSE bundle
             IN  InstallHealthStatus(health_ok(issues), issues, checked_paths,
                                     IF h.windows THEN "repair" ELSE "none")

(***************************************************************************)
(* The hosts of the model                                                  *)
(***************************************************************************)
\* what current_exe returns: a failure, a development build, an install
ExePaths ==
    {[ok |-> FALSE, kind |-> "current_exe"],
     Ok(<<"work", "src-tauri", "target", "debug", "packet-pilot">>),
     Ok(<<"work", "src-tauri", "target", "release", "packet-pilot">>),
     Ok(<<"opt", "PacketPilot", "packet-pilot">>)}

\* the paths the PATH lookup prints
WhichPath == <<"usr", "bin", "sharkd">>
WherePath == <<"C:", "Wireshark", "sharkd.exe">>

\* how the lookup ends: it cannot be run, it finds nothing, or it prints
\* its lines (`where` may print a path twice or one of the fixed paths)
Lookups(windows) ==
    {[st |-> "err", out |-> <<>>], [st |-> "fail", out |-> <<>>],
     [st |-> "ok", out |-> <<>>]}
    \cup IF windows
         THEN {[st |-> "ok", out |-> <<WherePath>>],
               [st |-> "ok", out |-> <<WherePath, ProgramFilesPaths[1], WherePath>>]}
         ELSE {[st |-> "ok", out |-> <<WhichPath>>]}

Range(s) == {s[i] : i \in 1..Len(s)}

\* the files of the executable's directory that the Windows validation
\* looks at: all of the runtime libraries, all but one, or none, with or
\* without the misnamed glib
RuntimeSets(dir) ==
    LET all == {join(dir, f) : f \in Range(windows_required_runtime_files)}
        glib == join(dir, "glib-2.0-0.dll")
    IN  {all, all \ {join(dir, "libglib-2.0-0.dll")},
         all \ {join(dir, "libwireshark.dll")}, {}}
        \cup {(all \ {join(dir, "libglib-2.0-0.dll")}) \cup {glib}, all \cup {glib}}

\* the sets of files that can exist on a host
FileSets(windows, exe) ==
    LET sys == IF windows THEN {WherePath} \cup Range(ProgramFilesPaths)
               ELSE {WhichPath}
        bundled == IF exe.ok
                   THEN Range(bundled_sharkd_candidates([windows |-> windows],
                                                        parent(exe.v)))
                   ELSE {}
        runtime == IF windows /\ exe.ok THEN RuntimeSets(parent(exe.v)) ELSE {{}}
    IN  {S \cup B \cup R : S \in SUBSET sys, B \in SUBSET bundled, R \in runtime}

\* how `sharkd -v` ends; it is run on Windows alone
Versions(windows) ==
    IF windows THEN {"ok", "nonzero", "err", "err_dll"} ELSE {"ok"}

Host(w, exe, F, l, k, v) ==
    [windows |-> w, current_exe |-> exe, files |-> F, listable |-> l,
     lookup |-> k, version |-> v]

\* an installed Linux build with its wrapper
DefaultHost ==
    Host(FALSE, Ok(<<"opt", "PacketPilot", "packet-pilot">>),
         {<<"opt", "PacketPilot", "sharkd-wrapper-x86_64-unknown-linux-gnu">>},
         TRUE, [st |-> "fail", out |-> <<>>], "ok")

(***************************************************************************)
(* State                                                                   *)
(***************************************************************************)
VARIABLES
    slot,        \* SHARKD: 0 (None) or the engine of the stored client
    bridgeLock,  \* the thread that holds the mutex of SHARKD, or NoThread
    nSpawned,    \* engine processes spawned so far (engines 1..nSpawned)
    handle,      \* per engine: "none", "owned" (its SharkdClient is alive), "dropped"
    engState,    \* per engine: "none", "running", "hung", "exited", "orphan"
    request_id,  \* per engine: SharkdClient.request_id
    stdinLock,   \* per engine: holder of SharkdClient.stdin
    stdoutLock,  \* per engine: holder of SharkdClient.stdout
    inPipe,      \* per engine: request lines written and not yet taken
    outPipe,     \* per engine: response lines not yet read
    nWritten,    \* per engine: request lines written and flushed
    nRead,       \* per engine: read_line calls that returned
    pc,          \* per thread: where it is
    cmd,         \* per thread: the command it runs
    rs,          \* per thread: outcomes of the calls the command made so far
    call,        \* per thread: the call in progress
    cl,          \* per thread: the engine of the client it uses (0: none)
    id,          \* per thread: the id of its request
    line,        \* per thread: the line its send_request read
    sr,          \* per thread: what its send_request returned
    sent,        \* per thread: requests written since its call began
    reads,       \* per thread: read_line calls since its call began
    got,         \* per thread: lines taken from the pipe since its call began
    nLines,      \* per engine: lines taken from its output pipe
    firstReq,    \* per engine: the first request line written to it
    ret,         \* the command that returned last and its return value, until
                 \* the next command starts
    env,         \* the host the locator sees: platform, executable, files
    python_process, \* PYTHON_PROCESS: 0 (None) or the sidecar child it tracks
    child,       \* per sidecar child spawned so far: "running", "exited"
                 \* (not yet waited for), "reaped"
    kills,       \* kill calls made on sidecar children so far
    stops        \* stop_python_sidecar calls since the last other call on the
                 \* sidecar, counted up to 2

vars == <<slot, bridgeLock, nSpawned, handle, engState, request_id, stdinLock,
          stdoutLock, inPipe, outPipe, nWritten, nRead, pc, cmd, rs, call, cl,
          id, line, sr, sent, reads, got, nLines, firstReq, ret,
          env, python_process, child, kills, stops>>

bridgeVars == <<slot, bridgeLock>>
procVars == <<nSpawned, handle, engState>>
lockVars == <<stdinLock, stdoutLock>>
pipeVars == <<inPipe, outPipe, nWritten, nRead, nLines, firstReq>>
callVars == <<call, cl, id, line, sr, sent, reads, got>>
sidecarVars == <<python_process, child, kills, stops>>
hostVars == <<env, sidecarVars>>

Threads == 0..NThreads
StartupThread == 0
CommandThreads == 1..NThreads
NoThread == -1
Engines == 1..MaxEngines

NoCmd == [name |-> "none"]
NoCall == [op |-> "none"]
NoLine == [t |-> "none"]
NoOutcome == [t |-> "none"]
NoRet == [thread |-> NoThread]
Returned(t, c, r) == [thread |-> t, cmd |-> c, res |-> r]

(***************************************************************************)
(* Arguments of the commands and calls                                     *)
(***************************************************************************)
Paths == {"a.pcap"}
Skips == {0, 1}
Limits == {1}
Filters == {"", "tcp"}
FrameNums == {1}
StreamIds == {0}
Formats == {"ascii", "hex"}

\* the invocations of the Tauri commands and HTTP handlers
AllCommands ==
    {[name |-> "init_sharkd"], [name |-> "get_status"],
     [name |-> "capture_stats_handler"]}
    \cup {[name |-> "load_pcap", path |-> p] : p \in Paths}
    \cup {[name |-> n, skip |-> s, limit |-> l] :
            n \in {"get_frames", "get_frames_handler"}, s \in Skips, l \in Limits}
    \cup {[name |-> n, filter |-> f] :
            n \in {"apply_filter", "check_filter", "check_filter_handler"},
            f \in Filters}
    \cup {[name |-> n, frame_num |-> f] :
            n \in {"get_frame_details", "get_frame_details_handler"},
            f \in FrameNums}
    \cup {[name |-> "search_handler", filter |-> f, skip |-> s, limit |-> l] :
            f \in Filters, s \in Skips, l \in Limits}
    \cup {[name |-> "stream_handler", protocol |-> p, stream_id |-> i,
           format |-> f] : p \in Protocols, i \in StreamIds, f \in Formats}

\* the invocations that run side by side in Spec: init_sharkd and, for each
\* facade operation, one command or handler that calls it
Commands ==
    {[name |-> "init_sharkd"], [name |-> "get_status"],
     [name |-> "capture_stats_handler"],
     [name |-> "load_pcap", path |-> "a.pcap"],
     [name |-> "get_frames", skip |-> 1, limit |-> 1],
     [name |-> "get_frame_details", frame_num |-> 1],
     [name |-> "search_handler", filter |-> "tcp", skip |-> 1, limit |-> 1],
     [name |-> "stream_handler", protocol |-> "TCP", stream_id |-> 0,
      format |-> "ascii"]}

\* arguments of the calls made on the client directly
CallSkips == {0, 1, 2}
CallLimits == {1, 2}
CallStreamIds == {0, 1}

\* the calls a holder of a &SharkdClient can make
FacadeCalls ==
    {[op |-> "status"], [op |-> "capture_stats"]}
    \cup {[op |-> "load", file_path |-> p] : p \in Paths}
    \cup {[op |-> "frames", skip |-> s, limit |-> l] :
            s \in CallSkips, l \in CallLimits}
    \cup {[op |-> "frame", frame_num |-> f] : f \in FrameNums}
    \cup {[op |-> "check_filter", filter |-> f] : f \in Filters}
    \cup {[op |-> "search_frames", filter |-> f, skip |-> s, limit |-> l] :
            f \in Filters, s \in CallSkips, l \in CallLimits}
    \cup {[op |-> "follow_stream", protocol |-> p, stream_id |-> i] :
            p \in Protocols, i \in CallStreamIds}

(***************************************************************************)
(* Init: nothing spawned, SHARKD holds None, every thread idle             *)
(***************************************************************************)
\* the program's own state when run() begins
Started ==
    /\ python_process = 0
    /\ child = <<>>
    /\ kills = 0
    /\ stops = 0
    /\ slot = 0
    /\ bridgeLock = NoThread
    /\ nSpawned = 0
    /\ handle = [e \in Engines |-> "none"]
    /\ engState = [e \in Engines |-> "none"]
    /\ request_id = [e \in Engines |-> 1]
    /\ stdinLock = [e \in Engines |-> NoThread]
    /\ stdoutLock = [e \in Engines |-> NoThread]
    /\ inPipe = [e \in Engines |-> <<>>]
    /\ outPipe = [e \in Engines |-> <<>>]
    /\ nWritten = [e \in Engines |-> 0]
    /\ nRead = [e \in Engines |-> 0]
    /\ pc = [t \in Threads |-> "idle"]
    /\ cmd = [t \in Threads |-> NoCmd]
    /\ rs = [t \in Threads |-> <<>>]
    /\ call = [t \in Threads |-> NoCall]
    /\ cl = [t \in Threads |-> 0]
    /\ id = [t \in Threads |-> 0]
    /\ line = [t \in Threads |-> NoLine]
    /\ sr = [t \in Threads |-> NoOutcome]
    /\ sent = [t \in Threads |-> 0]
    /\ reads = [t \in Threads |-> 0]
    /\ got = [t \in Threads |-> 0]
    /\ nLines = [e \in Engines |-> 0]
    /\ firstReq = [e \in Engines |-> NoLine]
    /\ ret = NoRet

\* the application on the default host
Init ==
    /\ env = DefaultHost
    /\ Started

(***************************************************************************)
(* Commands: invoke, take the global mutex, run, return                    *)
(***************************************************************************)
\* a command or handler is invoked on thread t (the startup thread runs once)
Invoke(t) ==
    /\ pc[t] = "idle"
    /\ pc' = [pc EXCEPT ![t] = "lock"]
    /\ UNCHANGED <<bridgeVars, procVars, lockVars, pipeVars, request_id, cmd, rs,
                   callVars, ret>>
    /\ UNCHANGED hostVars

\* a command that starts without waiting for the mutex
Lock_without_waiting(t, c) ==
    /\ pc[t] = "lock"
    /\ bridgeLock' = t
    /\ cmd' = [cmd EXCEPT ![t] = c]
    /\ pc' = [pc EXCEPT ![t] = "run"]
    /\ ret' = NoRet
    /\ UNCHANGED <<slot, procVars, lockVars, pipeVars, request_id, rs, callVars>>
    /\ UNCHANGED hostVars

\* get_sharkd().lock(): thread t gets the mutex and starts command c
Lock(t, c) ==
    /\ pc[t] = "lock"
    /\ bridgeLock = NoThread
    /\ bridgeLock' = t
    /\ cmd' = [cmd EXCEPT ![t] = c]
    /\ pc' = [pc EXCEPT ![t] = "run"]
    /\ ret' = NoRet
    /\ UNCHANGED <<slot, procVars, lockVars, pipeVars, request_id, rs, callVars>>
    /\ UNCHANGED hostVars

\* the command makes its next facade call on the client in the slot
RunCall(t) ==
    /\ pc[t] = "run"
    /\ Step(cmd[t], rs[t], slot).t = "call"
    /\ call' = [call EXCEPT ![t] = Step(cmd[t], rs[t], slot).call]
    /\ cl' = [cl EXCEPT ![t] = IF cmd[t].name = "direct" THEN cl[t] ELSE slot]
    /\ pc' = [pc EXCEPT ![t] = "sr_begin"]
    /\ UNCHANGED <<bridgeVars, procVars, lockVars, pipeVars, request_id, cmd, rs,
                   id, line, sr, sent, reads, got, ret>>
    /\ UNCHANGED hostVars

\* init_sharkd and the startup thread enter SharkdClient::new
RunNew(t) ==
    /\ pc[t] = "run"
    /\ Step(cmd[t], rs[t], slot).t = "new"
    /\ pc' = [pc EXCEPT ![t] = "new"]
    /\ UNCHANGED <<bridgeVars, procVars, lockVars, pipeVars, request_id, cmd, rs,
                   callVars, ret>>
    /\ UNCHANGED hostVars

\* the clients that go out of scope when the command of thread t returns
\* with slotAfter in the slot: the one the assignment replaced, and the one
\* new built when it is not stored
Dropped(t, slotAfter) ==
    ({slot} \cup IF cmd[t].name \in {"init_sharkd", "startup"} THEN {cl[t]} ELSE {})
        \ {0, slotAfter}

\* a return that leaks the guard of SHARKD (the mutex stays locked)
RunDone_keeps_guard(t) ==
    /\ pc[t] = "run"
    /\ Step(cmd[t], rs[t], slot).t = "done"
    /\ LET s == Step(cmd[t], rs[t], slot)
           slotAfter == CASE s.slot = "keep" -> slot
                          [] s.slot = "client" -> cl[t]
                          [] s.slot = "none" -> 0
           D == Dropped(t, slotAfter)
       IN  /\ ret' = Returned(t, cmd[t], s.res)
           /\ slot' = slotAfter
           /\ handle' = [e \in Engines |-> IF e \in D THEN "dropped" ELSE handle[e]]
           /\ engState' = [e \in Engines |-> IF e \in D THEN "orphan" ELSE engState[e]]
           /\ request_id' = [e \in Engines |-> IF e \in D THEN 0 ELSE request_id[e]]
           /\ inPipe' = [e \in Engines |-> IF e \in D THEN <<>> ELSE inPipe[e]]
           /\ outPipe' = [e \in Engines |-> IF e \in D THEN <<>> ELSE outPipe[e]]
           /\ nWritten' = [e \in Engines |-> IF e \in D THEN 0 ELSE nWritten[e]]
           /\ nRead' = [e \in Engines |-> IF e \in D THEN 0 ELSE nRead[e]]
           /\ nLines' = [e \in Engines |-> IF e \in D THEN 0 ELSE nLines[e]]
    /\ bridgeLock' = bridgeLock
    /\ cl' = [cl EXCEPT ![t] = IF cmd[t].name = "direct" THEN cl[t] ELSE 0]
    /\ pc' = [pc EXCEPT ![t] = IF t = StartupThread THEN "done" ELSE "idle"]
    /\ cmd' = [cmd EXCEPT ![t] = NoCmd]
    /\ rs' = [rs EXCEPT ![t] = <<>>]
    /\ call' = [call EXCEPT ![t] = NoCall]
    /\ id' = [id EXCEPT ![t] = 0]
    /\ line' = [line EXCEPT ![t] = NoLine]
    /\ sr' = [sr EXCEPT ![t] = NoOutcome]
    /\ sent' = [sent EXCEPT ![t] = 0]
    /\ reads' = [reads EXCEPT ![t] = 0]
    /\ got' = [got EXCEPT ![t] = 0]
    /\ UNCHANGED <<nSpawned, lockVars, firstReq>>
    /\ UNCHANGED hostVars

\* the command returns: its locals and the guard are dropped, the mutex is
\* released; the startup thread ends.  Dropping a SharkdClient drops its
\* Child, pipes and counter; nothing kills or waits for the process, which
\* is an orphan from then on: what it does is no longer seen by the program.
RunDone(t) ==
    /\ pc[t] = "run"
    /\ Step(cmd[t], rs[t], slot).t = "done"
    /\ LET s == Step(cmd[t], rs[t], slot)
           slotAfter == CASE s.slot = "keep" -> slot
                          [] s.slot = "client" -> cl[t]
                          [] s.slot = "none" -> 0
           D == Dropped(t, slotAfter)
       IN  /\ ret' = Returned(t, cmd[t], s.res)
           /\ slot' = slotAfter
           /\ handle' = [e \in Engines |-> IF e \in D THEN "dropped" ELSE handle[e]]
           /\ engState' = [e \in Engines |-> IF e \in D THEN "orphan" ELSE engState[e]]
           /\ request_id' = [e \in Engines |-> IF e \in D THEN 0 ELSE request_id[e]]
           /\ inPipe' = [e \in Engines |-> IF e \in D THEN <<>> ELSE inPipe[e]]
           /\ outPipe' = [e \in Engines |-> IF e \in D THEN <<>> ELSE outPipe[e]]
           /\ nWritten' = [e \in Engines |-> IF e \in D THEN 0 ELSE nWritten[e]]
           /\ nRead' = [e \in Engines |-> IF e \in D THEN 0 ELSE nRead[e]]
           /\ nLines' = [e \in Engines |-> IF e \in D THEN 0 ELSE nLines[e]]
    /\ bridgeLock' = IF bridgeLock = t THEN NoThread ELSE bridgeLock
    /\ cl' = [cl EXCEPT ![t] = IF cmd[t].name = "direct" THEN cl[t] ELSE 0]
    /\ pc' = [pc EXCEPT ![t] = IF t = StartupThread THEN "done" ELSE "idle"]
    /\ cmd' = [cmd EXCEPT ![t] = NoCmd]
    /\ rs' = [rs EXCEPT ![t] = <<>>]
    /\ call' = [call EXCEPT ![t] = NoCall]
    /\ id' = [id EXCEPT ![t] = 0]
    /\ line' = [line EXCEPT ![t] = NoLine]
    /\ sr' = [sr EXCEPT ![t] = NoOutcome]
    /\ sent' = [sent EXCEPT ![t] = 0]
    /\ reads' = [reads EXCEPT ![t] = 0]
    /\ got' = [got EXCEPT ![t] = 0]
    /\ UNCHANGED <<nSpawned, lockVars, firstReq>>
    /\ UNCHANGED hostVars

(***************************************************************************)
(* SharkdClient::new up to the handshake request                           *)
(***************************************************************************)
\* find_sharkd fails, spawn fails, or the process is spawned and the client
\* built with request_id 1
New(t, outcome) ==
    /\ pc[t] = "new"
    /\ IF outcome = "ok"
       THEN /\ nSpawned < MaxEngines
            /\ nSpawned' = nSpawned + 1
            /\ handle' = [handle EXCEPT ![nSpawned + 1] = "owned"]
            /\ engState' = [engState EXCEPT ![nSpawned + 1] = "running"]
            /\ request_id' = [request_id EXCEPT ![nSpawned + 1] = 1]
            /\ cl' = [cl EXCEPT ![t] = nSpawned + 1]
            /\ call' = [call EXCEPT ![t] = [op |-> "new"]]
            /\ pc' = [pc EXCEPT ![t] = "sr_begin"]
            /\ rs' = rs
       ELSE /\ rs' = [rs EXCEPT ![t] =
                        <<Err(IF outcome = "notfound" THEN "Sharkd not found"
                              ELSE "Failed to spawn sharkd")>>]
            /\ pc' = [pc EXCEPT ![t] = "run"]
            /\ UNCHANGED <<procVars, request_id, cl, call>>
    /\ UNCHANGED <<bridgeVars, lockVars, pipeVars, cmd, id, line, sr, sent, reads,
                   got, ret>>
    /\ UNCHANGED hostVars

(***************************************************************************)
(* SharkdClient::send_request, one action per blocking point               *)
(***************************************************************************)
\* a counter that hands out its value without moving on
fetch_add_stays(counter) == [previous |-> counter, now |-> counter]

\* AtomicU64::fetch_add(1, SeqCst): one atomic step that returns the value
\* the counter had and leaves it one higher
fetch_add(counter) == [previous |-> counter, now |-> counter + 1]

\* request_id.fetch_add(1) and the request object
SrBegin(t) ==
    /\ pc[t] = "sr_begin"
    /\ request_id[cl[t]] <= MaxReq
    /\ id' = [id EXCEPT ![t] = fetch_add(request_id[cl[t]]).previous]
    /\ request_id' = [request_id EXCEPT ![cl[t]] = fetch_add(@).now]
    /\ line' = [line EXCEPT ![t] = NoLine]
    /\ sr' = [sr EXCEPT ![t] = NoOutcome]
    /\ sent' = [sent EXCEPT ![t] = 0]
    /\ reads' = [reads EXCEPT ![t] = 0]
    /\ got' = [got EXCEPT ![t] = 0]
    /\ pc' = [pc EXCEPT ![t] = "sr_stdin"]
    /\ UNCHANGED <<bridgeVars, procVars, lockVars, pipeVars, cmd, rs, call, cl, ret>>
    /\ UNCHANGED hostVars

\* self.stdin.lock()
SrLockStdin(t) ==
    /\ pc[t] = "sr_stdin"
    /\ stdinLock[cl[t]] = NoThread
    /\ stdinLock' = [stdinLock EXCEPT ![cl[t]] = t]
    /\ pc' = [pc EXCEPT ![t] = "sr_write"]
    /\ UNCHANGED <<bridgeVars, procVars, stdoutLock, pipeVars, request_id, cmd, rs,
                   callVars, ret>>
    /\ UNCHANGED hostVars

\* a send_request that went on to read_response after a failed write
AfterWrite_reads_anyway(written) == "sr_stdout"

\* where send_request goes after write_all and flush: a failure returns
\* through the ? operator
AfterWrite(written) == IF written THEN "sr_stdout" ELSE "sr_ret"

\* write_all and flush, then the input lock is released.  The write fails
\* when the engine has exited (the pipe is broken).
SrWrite(t) ==
    LET e == cl[t]
        written == engState[e] # "exited"
        request == CallRequest(call[t])
        reqLine == Request(id[t], request.method, request.params)
    IN  /\ pc[t] = "sr_write"
        /\ stdinLock[e] = t
        /\ stdinLock' = [stdinLock EXCEPT ![e] = NoThread]
        /\ IF written
           THEN /\ inPipe' = [inPipe EXCEPT ![e] = Append(@, reqLine)]
                /\ nWritten' = [nWritten EXCEPT ![e] = @ + 1]
                /\ firstReq' = [firstReq EXCEPT ![e] =
                                  IF @ = NoLine THEN JsonLine(reqLine) ELSE @]
                /\ sent' = [sent EXCEPT ![t] = @ + 1]
                /\ sr' = sr
           ELSE /\ sr' = [sr EXCEPT ![t] = send_request_write_failed]
                /\ UNCHANGED <<inPipe, nWritten, firstReq, sent>>
        /\ pc' = [pc EXCEPT ![t] = AfterWrite(written)]
        /\ UNCHANGED <<bridgeVars, procVars, stdoutLock, outPipe, nRead, nLines,
                       request_id, cmd, rs, call, cl, id, line, reads, got, ret>>
        /\ UNCHANGED hostVars

\* self.stdout.lock() in read_response
SrLockStdout(t) ==
    /\ pc[t] = "sr_stdout"
    /\ stdoutLock[cl[t]] = NoThread
    /\ stdoutLock' = [stdoutLock EXCEPT ![cl[t]] = t]
    /\ pc' = [pc EXCEPT ![t] = "sr_readline"]
    /\ UNCHANGED <<bridgeVars, procVars, stdinLock, pipeVars, request_id, cmd, rs,
                   callVars, ret>>
    /\ UNCHANGED hostVars

\* a send_request that wrote its request again when the response failed
AfterResponse_retries(outcome) == IF outcome.ok THEN "sr_ret" ELSE "sr_stdin"

\* where send_request goes with the outcome of the response: it returns
AfterResponse(outcome) == "sr_ret"

\* a read_line that gave up waiting
LineReady_gives_up(e) == TRUE

\* read_line returns when the pipe holds a line or is at end of file; there
\* is no timeout
LineReady(e) == outPipe[e] # <<>> \/ engState[e] = "exited"

\* read_line blocks until it can return; then the output lock is released
\* and the line decoded
SrReadLine(t) ==
    LET e == cl[t]
        n == IF outPipe[e] # <<>> THEN 1 ELSE 0
        ln == IF outPipe[e] # <<>> THEN Head(outPipe[e]) ELSE EofLine
    IN  /\ pc[t] = "sr_readline"
        /\ stdoutLock[e] = t
        /\ LineReady(e)
        /\ outPipe' = [outPipe EXCEPT ![e] = IF @ # <<>> THEN Tail(@) ELSE @]
        /\ nRead' = [nRead EXCEPT ![e] = @ + 1]
        /\ nLines' = [nLines EXCEPT ![e] = @ + n]
        /\ reads' = [reads EXCEPT ![t] = @ + 1]
        /\ got' = [got EXCEPT ![t] = @ + n]
        /\ stdoutLock' = [stdoutLock EXCEPT ![e] = NoThread]
        /\ line' = [line EXCEPT ![t] = ln]
        /\ sr' = [sr EXCEPT ![t] = send_request_response(ln)]
        /\ pc' = [pc EXCEPT ![t] = AfterResponse(send_request_response(ln))]
        /\ UNCHANGED <<bridgeVars, procVars, stdinLock, inPipe, nWritten, firstReq,
                       request_id, cmd, rs, call, cl, id, sent, ret>>
        /\ UNCHANGED hostVars

\* send_request has returned; the facade operation makes its result of it
SrReturn(t) ==
    /\ pc[t] = "sr_ret"
    /\ rs' = [rs EXCEPT ![t] = Append(@, CallResult(call[t], sr[t]))]
    /\ pc' = [pc EXCEPT ![t] = "run"]
    /\ UNCHANGED <<bridgeVars, procVars, lockVars, pipeVars, request_id, cmd,
                   callVars, ret>>
    /\ UNCHANGED hostVars

(***************************************************************************)
(* The engine process                                                      *)
(***************************************************************************)
\* the engine takes the oldest request and answers it with one line
EngineAnswer(e) ==
    /\ handle[e] = "owned"
    /\ engState[e] = "running"
    /\ inPipe[e] # <<>>
    /\ inPipe' = [inPipe EXCEPT ![e] = Tail(@)]
    /\ \E ln \in Answers(Head(inPipe[e])) :
          outPipe' = [outPipe EXCEPT ![e] = Append(@, ln)]
    /\ UNCHANGED <<bridgeVars, procVars, lockVars, nWritten, nRead, nLines,
                   firstReq, request_id, pc, cmd, rs, callVars, ret>>
    /\ UNCHANGED hostVars

\* the engine stops answering for good, with a request left on its input
EngineHang(e) ==
    /\ handle[e] = "owned"
    /\ engState[e] = "running"
    /\ inPipe[e] # <<>>
    /\ engState' = [engState EXCEPT ![e] = "hung"]
    /\ UNCHANGED <<bridgeVars, nSpawned, handle, lockVars, pipeVars, request_id, pc,
                   cmd, rs, callVars, ret>>
    /\ UNCHANGED hostVars

\* the engine exits: its end of both pipes is closed, what it had written
\* stays readable
EngineExit(e) ==
    /\ handle[e] = "owned"
    /\ engState[e] = "running"
    /\ engState' = [engState EXCEPT ![e] = "exited"]
    /\ inPipe' = [inPipe EXCEPT ![e] = <<>>]
    /\ UNCHANGED <<bridgeVars, nSpawned, handle, lockVars, outPipe, nWritten, nRead,
                   nLines, firstReq, request_id, pc, cmd, rs, callVars, ret>>
    /\ UNCHANGED hostVars

(***************************************************************************)
(* Spec: the application                                                   *)
(***************************************************************************)
Next ==
    \/ \E t \in Threads : Invoke(t)
    \/ \E t \in Threads :
         \E c \in IF t = StartupThread THEN {[name |-> "startup"]} ELSE Commands :
            Lock(t, c)
    \/ \E t \in Threads : RunCall(t)
    \/ \E t \in Threads : RunNew(t)
    \/ \E t \in Threads : RunDone(t)
    \/ \E t \in Threads : \E o \in {"notfound", "spawnfail", "ok"} : New(t, o)
    \/ \E t \in Threads : SrBegin(t)
    \/ \E t \in Threads : SrLockStdin(t)
    \/ \E t \in Threads : SrWrite(t)
    \/ \E t \in Threads : SrLockStdout(t)
    \/ \E t \in Threads : SrReadLine(t)
    \/ \E t \in Threads : SrReturn(t)
    \/ \E e \in Engines : EngineAnswer(e)
    \/ \E e \in Engines : EngineHang(e)
    \/ \E e \in Engines : EngineExit(e)

Spec == Init /\ [][Next]_vars

(***************************************************************************)
(* SpecClient: the SharkdClient as a component.  SharkdClient is Sync and  *)
(* every operation takes &self, so threads that share one client may call  *)
(* it at the same time; here they do, without the mutex of SHARKD.  The    *)
(* client is the one new returned: its handshake was request 1.            *)
(***************************************************************************)
TheClient == 1

ClientCalls ==
    {[op |-> "status"]} \cup {[op |-> "check_filter", filter |-> "tcp"]}

InitClient ==
    /\ env = DefaultHost
    /\ python_process = 0
    /\ child = <<>>
    /\ kills = 0
    /\ stops = 0
    /\ slot = 0
    /\ bridgeLock = NoThread
    /\ nSpawned = 1
    /\ handle = [e \in Engines |-> IF e = TheClient THEN "owned" ELSE "none"]
    /\ engState = [e \in Engines |-> IF e = TheClient THEN "running" ELSE "none"]
    /\ request_id = [e \in Engines |-> IF e = TheClient THEN 2 ELSE 0]
    /\ stdinLock = [e \in Engines |-> NoThread]
    /\ stdoutLock = [e \in Engines |-> NoThread]
    /\ inPipe = [e \in Engines |-> <<>>]
    /\ outPipe = [e \in Engines |-> <<>>]
    /\ nWritten = [e \in Engines |-> IF e = TheClient THEN 1 ELSE 0]
    /\ nRead = [e \in Engines |-> IF e = TheClient THEN 1 ELSE 0]
    /\ nLines = [e \in Engines |-> IF e = TheClient THEN 1 ELSE 0]
    /\ firstReq = [e \in Engines |->
                     IF e = TheClient THEN JsonLine(Request(1, "status", None))
                     ELSE NoLine]
    /\ pc = [t \in Threads |-> "idle"]
    /\ cmd = [t \in Threads |-> NoCmd]
    /\ rs = [t \in Threads |-> <<>>]
    /\ call = [t \in Threads |-> NoCall]
    /\ cl = [t \in Threads |-> TheClient]
    /\ id = [t \in Threads |-> 0]
    /\ line = [t \in Threads |-> NoLine]
    /\ sr = [t \in Threads |-> NoOutcome]
    /\ sent = [t \in Threads |-> 0]
    /\ reads = [t \in Threads |-> 0]
    /\ got = [t \in Threads |-> 0]
    /\ ret = NoRet

\* thread t calls the operation c on the shared client
ClientInvoke(t, c) ==
    /\ pc[t] = "idle"
    /\ cmd' = [cmd EXCEPT ![t] = [name |-> "direct", call |-> c]]
    /\ pc' = [pc EXCEPT ![t] = "run"]
    /\ ret' = NoRet
    /\ UNCHANGED <<bridgeVars, procVars, lockVars, pipeVars, request_id, rs, callVars>>
    /\ UNCHANGED hostVars

NextClient ==
    \/ \E t \in CommandThreads : \E c \in ClientCalls : ClientInvoke(t, c)
    \/ \E t \in CommandThreads : RunCall(t)
    \/ \E t \in CommandThreads : RunDone(t)
    \/ \E t \in CommandThreads : SrBegin(t)
    \/ \E t \in CommandThreads : SrLockStdin(t)
    \/ \E t \in CommandThreads : SrWrite(t)
    \/ \E t \in CommandThreads : SrLockStdout(t)
    \/ \E t \in CommandThreads : SrReadLine(t)
    \/ \E t \in CommandThreads : SrReturn(t)
    \/ EngineAnswer(TheClient)
    \/ EngineExit(TheClient)

SpecClient == InitClient /\ [][NextClient]_vars

(***************************************************************************)
(* SpecIds: threads that call status on one shared SharkdClient at the     *)
(* same time, with an engine that answers a request with an empty result   *)
(* or an error object, or exits.                                           *)
(***************************************************************************)
IdCalls == {[op |-> "status"]}

\* the engine takes the oldest request and answers it with a result or
\* with an error object
EngineAnswerPlain(e) ==
    /\ handle[e] = "owned"
    /\ engState[e] = "running"
    /\ inPipe[e] # <<>>
    /\ inPipe' = [inPipe EXCEPT ![e] = Tail(@)]
    /\ \E ln \in {JsonLine(Response(Head(inPipe[e]).v.id.v, Some(JObj(EmptyObj)),
                                    None)),
                  JsonLine(Response(Head(inPipe[e]).v.id.v, None,
                                    Some(ErrorObject(RemoteCode, RemoteMessage))))} :
          outPipe' = [outPipe EXCEPT ![e] = Append(@, ln)]
    /\ UNCHANGED <<bridgeVars, procVars, lockVars, nWritten, nRead, nLines,
                   firstReq, request_id, pc, cmd, rs, callVars, ret>>
    /\ UNCHANGED hostVars

NextIds ==
    \/ \E t \in CommandThreads : \E c \in IdCalls : ClientInvoke(t, c)
    \/ \E t \in CommandThreads : RunCall(t)
    \/ \E t \in CommandThreads : RunDone(t)
    \/ \E t \in CommandThreads : SrBegin(t)
    \/ \E t \in CommandThreads : SrLockStdin(t)
    \/ \E t \in CommandThreads : SrWrite(t)
    \/ \E t \in CommandThreads : SrLockStdout(t)
    \/ \E t \in CommandThreads : SrReadLine(t)
    \/ \E t \in CommandThreads : SrReturn(t)
    \/ EngineAnswerPlain(TheClient)
    \/ EngineExit(TheClient)

SpecIds == InitClient /\ [][NextIds]_vars

(***************************************************************************)
(* SpecRpc: one caller, and an engine that may answer a request with any   *)
(* line: not JSON, not UTF-8, JSON that is no response, and responses with *)
(* every combination of a result and an error member.                      *)
(***************************************************************************)
RpcCaller == 1

\* JSON values a result may be, the falsy ones, the two answers to a check
\* request and the two shapes of a frames result among them
JsonValues ==
    {JNull, JBool(FALSE), JNum(0), JStr(""), JArr(<<>>), JObj(EmptyObj),
     JObj([status |-> JStr("OK")]), JObj([err |-> JStr("bad filter")]),
     JArr(<<Frame1>>), JObj([frames |-> JArr(<<Frame1>>)])}

\* the error members: absent, null, an error object, two malformed ones
RpcErrors ==
    {None, Some(JNull), Some(ErrorObject(RemoteCode, RemoteMessage)),
     Some(JObj([code |-> JStr("x"), message |-> JStr("m")])), Some(JStr("boom"))}

RpcLines(i) ==
    {GarbageLine, BadUtf8Line, JsonLine(JArr(<<>>)), JsonLine(JNum(0)),
     JsonLine(JObj([id |-> JNum(i), result |-> JNum(0)])),
     JsonLine(JArr(<<JStr("2.0"), JNum(i), JNum(0), JNull>>))}
    \cup {JsonLine(Response(j, r, e)) :
            j \in {i, 0}, r \in {None} \cup {Some(v) : v \in JsonValues},
            e \in RpcErrors}

\* the four blocks of a tap result, each tagged with the name of its tap
PhsBlock ==
    JObj([tap |-> JStr("phs"), type |-> JStr("phs"),
          protos |-> JArr(<<JObj([proto |-> JStr("eth")])>>)])
TcpBlock ==
    JObj([tap |-> JStr("conv:TCP"), type |-> JStr("conv"),
          convs |-> JArr(<<JObj([saddr |-> JStr("10.0.0.1")])>>)])
UdpBlock ==
    JObj([tap |-> JStr("conv:UDP"), type |-> JStr("conv"),
          convs |-> JArr(<<JObj([saddr |-> JStr("10.0.0.2")])>>)])
HostBlock ==
    JObj([tap |-> JStr("endpt:IPv4"), type |-> JStr("host"),
          hosts |-> JArr(<<JObj([host |-> JStr("10.0.0.3")])>>)])
TapBlocks == {PhsBlock, TcpBlock, UdpBlock, HostBlock}

\* the taps arrays: some of the four blocks, each at most once, in any order
TapArrays ==
    {a \in UNION {[1..n -> TapBlocks] : n \in 0..Cardinality(TapBlocks)} :
        \A i, j \in DOMAIN a : i # j => a[i] # a[j]}

\* the answers to a tap request that hold a taps array
TapLines(i) ==
    {JsonLine(Response(i, Some(JObj([taps |-> JArr(a)])), None)) : a \in TapArrays}

\* the blocks of a tap whose payload member is missing
NoPayload ==
    [phs |-> JObj([tap |-> JStr("phs"), type |-> JStr("phs")]),
     tcp |-> JObj([tap |-> JStr("conv:TCP"), type |-> JStr("conv")]),
     udp |-> JObj([tap |-> JStr("conv:UDP"), type |-> JStr("conv")]),
     host |-> JObj([tap |-> JStr("endpt:IPv4"), type |-> JStr("host")])]

\* the blocks of a tap whose payload member does not decode: an element
\* without its required member, a payload that is no array, an element that
\* is no struct after one that is, a member of the wrong type
BadPayload ==
    [phs |-> JObj([tap |-> JStr("phs"), type |-> JStr("phs"),
                   protos |-> JArr(<<JObj([frames |-> JNum(1)])>>)]),
     tcp |-> JObj([tap |-> JStr("conv:TCP"), type |-> JStr("conv"),
                   convs |-> JStr("none")]),
     udp |-> JObj([tap |-> JStr("conv:UDP"), type |-> JStr("conv"),
                   convs |-> JArr(<<JObj([saddr |-> JStr("10.0.0.2")]), JNum(1)>>)]),
     host |-> JObj([tap |-> JStr("endpt:IPv4"), type |-> JStr("host"),
                    hosts |-> JArr(<<JObj([host |-> JNum(1)])>>)])]

DamagedBlocks == {NoPayload[k] : k \in DOMAIN NoPayload}
                    \cup {BadPayload[k] : k \in DOMAIN BadPayload}

\* the taps arrays with the four blocks in the order of the request, each
\* one whole or damaged
DamagedTapArrays ==
    {<<a, b, c, d>> :
        a \in {PhsBlock, NoPayload.phs, BadPayload.phs},
        b \in {TcpBlock, NoPayload.tcp, BadPayload.tcp},
        c \in {UdpBlock, NoPayload.udp, BadPayload.udp},
        d \in {HostBlock, NoPayload.host, BadPayload.host}}

\* lines that answer a request of the method only
MethodLines(req) ==
    IF req.v.method.v = "tap"
    THEN TapLines(req.v.id.v)
           \cup {JsonLine(Response(req.v.id.v, Some(JObj([taps |-> JArr(a)])), None)) :
                    a \in DamagedTapArrays}
    ELSE {}

\* the engine takes the oldest request and answers it with any line
EngineAnswerAny(e) ==
    /\ handle[e] = "owned"
    /\ engState[e] = "running"
    /\ inPipe[e] # <<>>
    /\ inPipe' = [inPipe EXCEPT ![e] = Tail(@)]
    /\ \E ln \in RpcLines(Head(inPipe[e]).v.id.v) \cup MethodLines(Head(inPipe[e])) :
          outPipe' = [outPipe EXCEPT ![e] = Append(@, ln)]
    /\ UNCHANGED <<bridgeVars, procVars, lockVars, nWritten, nRead, nLines,
                   firstReq, request_id, pc, cmd, rs, callVars, ret>>
    /\ UNCHANGED hostVars

NextRpc ==
    \/ \E c \in FacadeCalls : ClientInvoke(RpcCaller, c)
    \/ RunCall(RpcCaller)
    \/ RunDone(RpcCaller)
    \/ SrBegin(RpcCaller)
    \/ SrLockStdin(RpcCaller)
    \/ SrWrite(RpcCaller)
    \/ SrLockStdout(RpcCaller)
    \/ SrReadLine(RpcCaller)
    \/ SrReturn(RpcCaller)
    \/ EngineAnswerAny(TheClient)
    \/ EngineExit(TheClient)

SpecRpc == InitClient /\ [][NextRpc]_vars

(***************************************************************************)
(* SpecSeq: the application with the startup thread and one command       *)
(* thread, which runs every command and handler with every argument of    *)
(* the model, one after the other.                                         *)
(***************************************************************************)
SeqThread == 1
SeqThreads == {StartupThread, SeqThread}

NextSeq ==
    \/ \E t \in SeqThreads : Invoke(t)
    \/ \E c \in AllCommands : Lock(SeqThread, c)
    \/ Lock(StartupThread, [name |-> "startup"])
    \/ \E t \in SeqThreads : RunCall(t)
    \/ \E t \in SeqThreads : RunNew(t)
    \/ \E t \in SeqThreads : RunDone(t)
    \/ \E t \in SeqThreads : \E o \in {"notfound", "spawnfail", "ok"} : New(t, o)
    \/ \E t \in SeqThreads : SrBegin(t)
    \/ \E t \in SeqThreads : SrLockStdin(t)
    \/ \E t \in SeqThreads : SrWrite(t)
    \/ \E t \in SeqThreads : SrLockStdout(t)
    \/ \E t \in SeqThreads : SrReadLine(t)
    \/ \E t \in SeqThreads : SrReturn(t)
    \/ \E e \in Engines : EngineAnswer(e)
    \/ \E e \in Engines : EngineHang(e)
    \/ \E e \in Engines : EngineExit(e)

SpecSeq == Init /\ [][NextSeq]_vars

(***************************************************************************)
(* The Python sidecar (python_sidecar.rs) and its commands (lib.rs).       *)
(* Every function holds the mutex of PYTHON_PROCESS from its first line to *)
(* its return and waits for nothing but its own kill inside it, so each is *)
(* one step.                                                               *)
(***************************************************************************)
SidecarPort == 8765

SidecarStatus(is_running, port, version, error) ==
    [is_running |-> is_running, port |-> port, version |-> version, error |-> error]

\* a cleanup that leaves a child that has exited in the slot
try_wait_keeps_exited(failed) ==
    LET c == python_process
    IN  CASE c = 0 -> [tracked |-> 0, child |-> child]
          [] c # 0 /\ failed -> [tracked |-> 0, child |-> child]
          [] OTHER -> [tracked |-> c, child |-> child]

\* the try_wait cleanup at the head of spawn_python_sidecar_with_config and
\* check_python_sidecar: a tracked child that has exited is reaped and
\* forgotten; one whose status cannot be read is forgotten
try_wait(failed) ==
    LET c == python_process
    IN  CASE c = 0 -> [tracked |-> 0, child |-> child]
          [] c # 0 /\ failed -> [tracked |-> 0, child |-> child]
          [] c # 0 /\ ~failed /\ child[c] = "exited" ->
               [tracked |-> 0, child |-> [child EXCEPT ![c] = "reaped"]]
          [] OTHER -> [tracked |-> c, child |-> child]

\* start_ai_sidecar up to its sleep: spawn_python_sidecar_with_config.  A
\* tracked child that still runs is kept; otherwise a child is spawned and
\* tracked, or the spawn fails and the command returns the error.
StartSidecar(t, waitFailed, spawned) ==
    LET w == try_wait(waitFailed)
        c == [name |-> "start_ai_sidecar"]
    IN  /\ pc[t] = "idle"
        /\ IF w.tracked # 0
           THEN /\ python_process' = w.tracked
                /\ child' = w.child
                /\ pc' = [pc EXCEPT ![t] = "sidecar_check"]
                /\ ret' = NoRet
           ELSE IF spawned
           THEN /\ Len(child) < MaxChildren
                /\ child' = Append(w.child, "running")
                /\ python_process' = Len(child) + 1
                /\ pc' = [pc EXCEPT ![t] = "sidecar_check"]
                /\ ret' = NoRet
           ELSE /\ python_process' = 0
                /\ child' = w.child
                /\ pc' = pc
                /\ ret' = Returned(t, c, Err("Failed to spawn sidecar"))
        /\ cmd' = [cmd EXCEPT ![t] = IF pc'[t] = "idle" THEN NoCmd ELSE c]
        /\ stops' = 0
        /\ UNCHANGED <<bridgeVars, procVars, lockVars, pipeVars, request_id, rs,
                       callVars, env, kills>>

\* start_ai_sidecar after its sleep: check_python_sidecar, then the status
StartSidecarCheck(t, waitFailed, is_running) ==
    LET w == try_wait(waitFailed)
    IN  /\ pc[t] = "sidecar_check"
        /\ python_process' = w.tracked
        /\ child' = w.child
        /\ ret' = Returned(t, cmd[t],
                     Ok(SidecarStatus(is_running, SidecarPort, Some("0.1.0"),
                          IF is_running THEN None
                          ELSE Some("Sidecar started but not responding yet"))))
        /\ pc' = [pc EXCEPT ![t] = "idle"]
        /\ cmd' = [cmd EXCEPT ![t] = NoCmd]
        /\ stops' = 0
        /\ UNCHANGED <<bridgeVars, procVars, lockVars, pipeVars, request_id, rs,
                       callVars, env, kills>>

\* get_ai_sidecar_status: get_sidecar_status
GetSidecarStatus(t, waitFailed, is_running) ==
    LET w == try_wait(waitFailed)
    IN  /\ pc[t] = "idle"
        /\ python_process' = w.tracked
        /\ child' = w.child
        /\ ret' = Returned(t, [name |-> "get_ai_sidecar_status"],
                     SidecarStatus(is_running, SidecarPort,
                          IF is_running THEN Some("0.1.0") ELSE None, None))
        /\ stops' = 0
        /\ UNCHANGED <<bridgeVars, procVars, lockVars, pipeVars, request_id, pc,
                       cmd, rs, callVars, env, kills>>

\* a teardown that leaves the child it found in the slot
stop_takes_keeps(tracked) == tracked

\* guard.take(): what is left in PYTHON_PROCESS
stop_takes(tracked) == 0

\* stop_ai_sidecar: stop_python_sidecar.  The child is taken out of the
\* slot; kill, and when kill succeeded wait.  A kill that fails returns
\* through the ? operator with the child dropped as it is.
StopSidecar(t, killed) ==
    LET c == python_process
    IN  /\ pc[t] = "idle"
        /\ python_process' = stop_takes(python_process)
        /\ stops' = IF stops < 2 THEN stops + 1 ELSE stops
        /\ IF c = 0
           THEN /\ killed
                /\ UNCHANGED <<child, kills>>
                /\ ret' = Returned(t, [name |-> "stop_ai_sidecar"], Ok(Unit))
           ELSE /\ kills' = kills + 1
                /\ child' = IF killed THEN [child EXCEPT ![c] = "reaped"] ELSE child
                /\ ret' = Returned(t, [name |-> "stop_ai_sidecar"],
                             IF killed THEN Ok(Unit)
                             ELSE Err("Failed to kill Python sidecar"))
        /\ UNCHANGED <<bridgeVars, procVars, lockVars, pipeVars, request_id, pc,
                       cmd, rs, callVars, env>>

\* a sidecar child ends by itself
SidecarExit(c) ==
    /\ c \in 1..Len(child)
    /\ child[c] = "running"
    /\ child' = [child EXCEPT ![c] = "exited"]
    /\ UNCHANGED <<bridgeVars, procVars, lockVars, pipeVars, request_id, pc, cmd,
                   rs, callVars, ret, env, python_process, kills, stops>>

NextSidecar ==
    \/ \E t \in CommandThreads : \E f, s \in BOOLEAN : StartSidecar(t, f, s)
    \/ \E t \in CommandThreads : \E f, u \in BOOLEAN : StartSidecarCheck(t, f, u)
    \/ \E t \in CommandThreads : \E f, u \in BOOLEAN : GetSidecarStatus(t, f, u)
    \/ \E t \in CommandThreads : \E k \in BOOLEAN : StopSidecar(t, k)
    \/ \E c \in 1..MaxChildren : SidecarExit(c)

SpecSidecar == Init /\ [][NextSidecar]_vars

(***************************************************************************)
(* SpecHost: the locator and the install-health probe, run on every host   *)
(* of the model.                                                           *)
(***************************************************************************)
InitHost ==
    /\ \E w \in BOOLEAN, exe \in ExePaths :
         \E F \in FileSets(w, exe), l \in IF exe.ok THEN BOOLEAN ELSE {FALSE},
            k \in Lookups(w), v \in Versions(w) :
            env = Host(w, exe, F, l, k, v)
    /\ Started

\* the locks get_install_health takes on its way: none
health_locks_bridge == {"SHARKD"}
health_locks == {}

\* lock l is free for thread t to take
Free(t, l) ==
    CASE l = "SHARKD" -> bridgeLock = NoThread
      [] l = "stdin" -> \A e \in Engines : stdinLock[e] = NoThread
      [] l = "stdout" -> \A e \in Engines : stdoutLock[e] = NoThread

\* the command get_install_health is invoked on thread t
HealthInvoke(t) ==
    /\ pc[t] = "idle"
    /\ pc' = [pc EXCEPT ![t] = "health"]
    /\ cmd' = [cmd EXCEPT ![t] = [name |-> "get_install_health"]]
    /\ ret' = NoRet
    /\ UNCHANGED <<bridgeVars, procVars, lockVars, pipeVars, request_id, rs,
                   callVars, hostVars>>

\* it looks at the host and returns its status
HealthReturn(t) ==
    /\ pc[t] = "health"
    /\ \A l \in health_locks : Free(t, l)
    /\ ret' = Returned(t, cmd[t], get_install_health(env))
    /\ pc' = [pc EXCEPT ![t] = "idle"]
    /\ cmd' = [cmd EXCEPT ![t] = NoCmd]
    /\ UNCHANGED <<bridgeVars, procVars, lockVars, pipeVars, request_id, rs,
                   callVars, hostVars>>

\* find_sharkd_with_debug as SharkdClient::new and get_install_health call it
FindSharkd(t) ==
    /\ pc[t] = "idle"
    /\ ret' = Returned(t, [name |-> "find_sharkd_with_debug"],
                       find_sharkd_with_debug(env))
    /\ UNCHANGED <<bridgeVars, procVars, lockVars, pipeVars, request_id, pc, cmd,
                   rs, callVars, hostVars>>

NextHost ==
    \/ HealthInvoke(SeqThread)
    \/ HealthReturn(SeqThread)
    \/ FindSharkd(SeqThread)

SpecHost == InitHost /\ [][NextHost]_vars

(***************************************************************************)
(* SpecHealth: get_install_health on a thread of its own while the startup *)
(* thread and one command thread use the bridge.                           *)
(***************************************************************************)
HealthThread == NThreads

HealthCommands == {[name |-> "init_sharkd"], [name |-> "get_status"]}

NextHealth ==
    \/ \E t \in SeqThreads : Invoke(t)
    \/ Lock(StartupThread, [name |-> "startup"])
    \/ \E c \in HealthCommands : Lock(SeqThread, c)
    \/ \E t \in SeqThreads : RunCall(t)
    \/ \E t \in SeqThreads : RunNew(t)
    \/ \E t \in SeqThreads : RunDone(t)
    \/ \E t \in SeqThreads : \E o \in {"notfound", "spawnfail", "ok"} : New(t, o)
    \/ \E t \in SeqThreads : SrBegin(t)
    \/ \E t \in SeqThreads : SrLockStdin(t)
    \/ \E t \in SeqThreads : SrWrite(t)
    \/ \E t \in SeqThreads : SrLockStdout(t)
    \/ \E t \in SeqThreads : SrReadLine(t)
    \/ \E t \in SeqThreads : SrReturn(t)
    \/ \E e \in Engines : EngineAnswer(e)
    \/ \E e \in Engines : EngineHang(e)
    \/ \E e \in Engines : EngineExit(e)
    \/ HealthInvoke(HealthThread)
    \/ HealthReturn(HealthThread)

SpecHealth == Init /\ [][NextHealth]_vars

(***************************************************************************)
(* SpecMutex: init_sharkd, the startup thread and the commands and         *)
(* handlers that make two round trips, on threads that run side by side.   *)
(***************************************************************************)
PairCommands ==
    {[name |-> "init_sharkd"],
     [name |-> "load_pcap", path |-> "a.pcap"],
     [name |-> "get_frames", skip |-> 1, limit |-> 1],
     [name |-> "apply_filter", filter |-> "tcp"],
     [name |-> "search_handler", filter |-> "tcp", skip |-> 1, limit |-> 1]}

NextMutex ==
    \/ \E t \in Threads : Invoke(t)
    \/ \E t \in CommandThreads : \E c \in PairCommands : Lock(t, c)
    \/ Lock(StartupThread, [name |-> "startup"])
    \/ \E t \in Threads : RunCall(t)
    \/ \E t \in Threads : RunNew(t)
    \/ \E t \in Threads : RunDone(t)
    \/ \E t \in Threads : \E o \in {"notfound", "spawnfail", "ok"} : New(t, o)
    \/ \E t \in Threads : SrBegin(t)
    \/ \E t \in Threads : SrLockStdin(t)
    \/ \E t \in Threads : SrWrite(t)
    \/ \E t \in Threads : SrLockStdout(t)
    \/ \E t \in Threads : SrReadLine(t)
    \/ \E t \in Threads : SrReturn(t)
    \/ \E e \in Engines : EngineAnswer(e)
    \/ \E e \in Engines : EngineExit(e)

SpecMutex == Init /\ [][NextMutex]_vars

(***************************************************************************)
(* SpecLive: the startup thread and command threads that run bridge        *)
(* commands and sidecar commands side by side, with engines that answer    *)
(* every request.  Every step of a thread that is inside an operation is   *)
(* taken eventually (weak fairness); a thread that waits for the mutex of  *)
(* SHARKD gets it if the mutex is free again and again (strong fairness:   *)
(* a parking_lot mutex hands the lock over to a waiter).                   *)
(***************************************************************************)
LiveCommands ==
    {[name |-> "init_sharkd"],
     [name |-> "get_frames", skip |-> 1, limit |-> 1],
     [name |-> "check_filter_handler", filter |-> "tcp"]}

\* the threads of the bridge commands and the thread of the sidecar commands
BridgeThreads == SeqThreads
SidecarThread == NThreads

\* thread t waits for the mutex of SHARKD and gets it
Acquire(t) ==
    \E c \in IF t = StartupThread THEN {[name |-> "startup"]} ELSE LiveCommands :
        Lock(t, c)

\* thread t takes a step of the operation it is in
Proceed(t) ==
    \/ RunCall(t)
    \/ RunNew(t)
    \/ RunDone(t)
    \/ \E o \in {"notfound", "spawnfail", "ok"} : New(t, o)
    \/ SrBegin(t)
    \/ SrLockStdin(t)
    \/ SrWrite(t)
    \/ SrLockStdout(t)
    \/ SrReadLine(t)
    \/ SrReturn(t)
    \/ \E u \in BOOLEAN : StartSidecarCheck(t, FALSE, u)

NextLive ==
    \/ \E t \in BridgeThreads : Invoke(t)
    \/ \E s \in BOOLEAN : StartSidecar(SidecarThread, FALSE, s)
    \/ \E t \in BridgeThreads : Acquire(t)
    \/ \E t \in BridgeThreads \cup {SidecarThread} : Proceed(t)
    \/ \E e \in Engines : EngineAnswer(e)

Fairness ==
    /\ \A t \in BridgeThreads \cup {SidecarThread} : WF_vars(Proceed(t))
    /\ \A t \in BridgeThreads : SF_vars(Acquire(t))
    /\ WF_vars(\E e \in Engines : EngineAnswer(e))

SpecLive == Init /\ [][NextLive]_vars /\ Fairness

(***************************************************************************)
(* Properties                                                              *)
(***************************************************************************)
\* thread t is inside a command or handler that uses the client of the slot
InCommand(t) == cmd[t].name \in TauriCommands \cup HttpHandlers
\* thread t is inside init_sharkd or the startup initialisation
InInit(t) == cmd[t].name \in {"init_sharkd", "startup"}
\* thread t has written its request and not yet got its line
InFlight(t) == pc[t] \in {"sr_stdout", "sr_readline"}

\* the line is a response on the wire: an object with the protocol marker
\* and a request id
IsResponseLine(ln) ==
    /\ ln.t = "json"
    /\ ln.v.t = "obj"
    /\ Get(ln.v, "jsonrpc").some /\ IsString(Get(ln.v, "jsonrpc").v)
    /\ Get(ln.v, "id").some /\ IsU64(Get(ln.v, "id").v)
HasResult(v) == Get(v, "result").some
HasError(v) == Get(v, "error").some
\* the response carries an error object with a numeric code and a message
HasErrorObject(v) ==
    /\ HasError(v)
    /\ Get(v, "error").v.t = "obj"
    /\ Get(Get(v, "error").v, "code").some
    /\ IsI64(Get(Get(v, "error").v, "code").v)
    /\ Get(Get(v, "error").v, "message").some
    /\ IsString(Get(Get(v, "error").v, "message").v)
RemoteErrorOf(v) ==
    ErrRemote(Get(v, "error").v.v.code.v, Get(v, "error").v.v.message.v)

HungInFlight == \E e \in Engines : engState[e] = "hung" /\ inPipe[e] # <<>>

\* C3: once the engine has stopped answering with a request unanswered, no
\* send_request returns and no command or handler of the bridge returns,
\* with a value or with an error, and this stays so.
C3_HungEngineBlocksEveryCall ==
    [][HungInFlight =>
          /\ HungInFlight'
          /\ ret' = ret
          /\ \A t \in Threads : pc'[t] \in {"sr_ret", "idle", "done"} => pc'[t] = pc[t]
      ]_vars

\* a caller waits in read_line on the hung engine, another command waits for
\* the mutex
C3_Witness ==
    /\ HungInFlight
    /\ \E t, u \in Threads : pc[t] = "sr_readline" /\ pc[u] = "lock"

\* the handshake of the client thread t built: the one request written is
\* the status request with id 1, the first on that process, and its result
\* has frames or columns
HandshakeOk(t) ==
    /\ cl[t] # 0
    /\ sent[t] = 1
    /\ firstReq[cl[t]] = JsonLine(Request(1, "status", None))
    /\ sr[t].ok
    /\ Get(sr[t].v, "frames").some \/ Get(sr[t].v, "columns").some

\* C4: new returns a client exactly when the handshake succeeded, and the
\* global slot changes only to a client whose handshake succeeded: a status
\* request written to the fresh process whose result had frames or columns.
C4_ReadyOnlyAfterHandshake ==
    /\ [](\A t \in Threads :
            (pc[t] = "run" /\ InInit(t) /\ Len(rs[t]) = 1)
                => (rs[t][1].ok <=> HandshakeOk(t)))
    /\ [][slot' # slot =>
            \E t \in Threads :
                pc[t] = "run" /\ InInit(t) /\ slot' = cl[t] /\ HandshakeOk(t)]_vars

\* init_sharkd has stored a client and returned
C4_Witness ==
    /\ slot # 0
    /\ ret.thread # NoThread
    /\ ret.cmd.name = "init_sharkd"
    /\ ret.res = Ok(JStr("Sharkd initialized successfully"))

\* a request of the command of thread t has failed
FailedCall(t) ==
    \/ \E i \in 1..Len(rs[t]) : ~rs[t][i].ok
    \/ pc[t] = "sr_ret" /\ ~sr[t].ok

\* C5: a command or handler whose request failed, in whatever way, leaves
\* the slot holding the same live client, and every request of a command is
\* sent on the client in the slot.
C5_FailedRequestKeepsClient ==
    /\ [][\A t \in Threads :
            (InCommand(t) /\ slot # 0 /\ FailedCall(t))
                => slot' = slot /\ handle'[slot] = "owned"]_vars
    /\ [](\A t \in Threads :
            (InCommand(t) /\ pc[t] \in {"sr_begin", "sr_stdin", "sr_write",
                                        "sr_stdout", "sr_readline", "sr_ret"})
                => slot # 0 /\ cl[t] = slot)

\* a handler whose first request failed has written its next request on the
\* client that is still in the slot
C5_Witness ==
    \E t \in Threads :
        /\ InCommand(t)
        /\ Len(rs[t]) = 1 /\ ~rs[t][1].ok
        /\ pc[t] = "sr_stdout" /\ sent[t] = 1
        /\ cl[t] = slot /\ handle[slot] = "owned"

\* C6: one invocation of a SharkdClient operation writes at most one
\* request, whether the call succeeds or fails, and only SharkdClient::new
\* spawns an engine process, also after the engine has exited.
C6_OneRequestPerCallNoRespawn ==
    /\ [](\A t \in Threads : sent[t] <= 1)
    /\ [][nSpawned' # nSpawned => \E t \in Threads : pc[t] = "new" /\ InInit(t)]_vars

\* an operation of a command has failed on an engine that exited after
\* taking the one request
C6_Witness ==
    \E t \in Threads :
        /\ InCommand(t)
        /\ pc[t] = "run" /\ Len(rs[t]) = 1 /\ ~rs[t][1].ok
        /\ sent[t] = 1
        /\ engState[cl[t]] = "exited"

\* no call on the client of engine e is between its write and its read
Quiet(e) == \A t \in Threads : cl[t] = e => ~InFlight(t)

\* C7 as stated: a send_request that wrote its request has taken exactly one
\* line from the output pipe when it returns, one whose write failed has
\* read nothing and returns an error, and between calls the lines taken
\* from the pipe are as many as the requests written.
C7_OneLinePerWrittenRequest ==
    /\ \A t \in Threads :
          pc[t] = "sr_ret" =>
              /\ sent[t] = 1 => got[t] = 1
              /\ sent[t] = 0 => got[t] = 0 /\ reads[t] = 0 /\ ~sr[t].ok
    /\ \A e \in Engines :
          (handle[e] = "owned" /\ Quiet(e)) => nLines[e] = nWritten[e]

\* C7, amended: a send_request that wrote its request has made exactly one
\* read_line call when it returns, which took one line from the pipe or
\* found the end of file of an engine that exited; one whose write failed
\* has read nothing and returns an error; between calls the read_line calls
\* are as many as the requests written.
C7_OneReadPerWrittenRequest ==
    /\ \A t \in Threads :
          pc[t] = "sr_ret" =>
              /\ sent[t] = 1 =>
                    /\ reads[t] = 1
                    /\ \/ got[t] = 1
                       \/ got[t] = 0 /\ line[t] = EofLine
                                     /\ engState[cl[t]] = "exited"
              /\ sent[t] = 0 =>
                    got[t] = 0 /\ reads[t] = 0 /\ sr[t] = send_request_write_failed
    /\ \A e \in Engines :
          (handle[e] = "owned" /\ Quiet(e)) => nRead[e] = nWritten[e]

\* a send_request returns after its one read_line found the end of file
C7_Witness ==
    \E t \in Threads :
        pc[t] = "sr_ret" /\ sent[t] = 1 /\ reads[t] = 1 /\ got[t] = 0

\* C8: of a response line, an error object makes send_request fail with the
\* remote code and message, also when a result is present; neither result
\* nor error makes it fail with the protocol failure; a result and no error
\* makes it return that result.
C8_ResponseClassification ==
    \A t \in Threads :
        (pc[t] = "sr_ret" /\ IsResponseLine(line[t])) =>
            LET v == line[t].v
            IN  /\ HasErrorObject(v) => sr[t] = RemoteErrorOf(v)
                /\ (~HasResult(v) /\ ~HasError(v))
                      => sr[t] = Err("No result in sharkd response")
                /\ (HasResult(v) /\ ~HasError(v)) => sr[t] = Ok(Get(v, "result").v)

FacadeOps ==
    {"load", "status", "frames", "frame", "check_filter", "search_frames",
     "follow_stream", "capture_stats"}

\* C9: every facade operation whose response carries an error object
\* returns the remote failure with that code and message, never a value.
C9_RemoteErrorNotSwallowed ==
    \A t \in Threads :
        (/\ pc[t] = "run" /\ Len(rs[t]) = 1
         /\ call[t].op \in FacadeOps
         /\ IsResponseLine(line[t]) /\ HasErrorObject(line[t].v))
            => rs[t][1] = RemoteErrorOf(line[t].v)

\* check_filter has returned the remote failure of its response
C9_Witness ==
    \E t \in Threads :
        /\ pc[t] = "run" /\ Len(rs[t]) = 1
        /\ call[t].op = "check_filter"
        /\ IsResponseLine(line[t]) /\ HasErrorObject(line[t].v)
        /\ rs[t][1] = ErrRemote(RemoteCode, RemoteMessage)

\* C10: a response whose members are the protocol marker, the id and a
\* result v makes send_request return exactly v, whatever JSON value v is.
C10_ResultRoundTrip ==
    \A t \in Threads :
        (/\ pc[t] = "sr_ret"
         /\ IsResponseLine(line[t])
         /\ DOMAIN line[t].v.v = {"jsonrpc", "id", "result"})
            => sr[t] = Ok(line[t].v.v.result)

\* thread t is inside a send_request on the client of engine e
InSendRequest(t, e) ==
    /\ cl[t] = e
    /\ pc[t] \in {"sr_stdin", "sr_write", "sr_stdout", "sr_readline", "sr_ret"}

\* C11: the request counter of a client is 1 when the client is built and
\* changes only when a send_request takes its value as the request's id,
\* and then by exactly one; so the ids of the requests of one client, those
\* of callers running side by side and of failed calls included, are all
\* different and all below the counter.
C11_RequestIdsCountUp ==
    /\ [][\A e \in Engines :
            (handle'[e] = "owned" /\ request_id'[e] # request_id[e]) =>
                \/ handle[e] = "none" /\ request_id'[e] = 1
                \/ /\ handle[e] = "owned"
                   /\ request_id'[e] = request_id[e] + 1
                   /\ \E t \in Threads :
                         /\ pc[t] = "sr_begin" /\ cl[t] = e
                         /\ pc'[t] = "sr_stdin" /\ id'[t] = request_id[e]]_vars
    /\ [](\A e \in Engines : handle[e] = "owned" =>
            /\ request_id[e] >= 1
            /\ \A t \in Threads :
                  InSendRequest(t, e) => id[t] >= 1 /\ id[t] < request_id[e]
            /\ \A t, u \in Threads :
                  (t # u /\ InSendRequest(t, e) /\ InSendRequest(u, e))
                      => id[t] # id[u]
            /\ \A i, j \in 1..Len(inPipe[e]) :
                  i # j => inPipe[e][i].v.id.v # inPipe[e][j].v.id.v)

\* two callers are inside send_request on one client at once, one of them
\* with a request that has already failed
C11_Witness ==
    \E t, u \in Threads :
        /\ t # u
        /\ InSendRequest(t, TheClient) /\ InSendRequest(u, TheClient)
        /\ pc[t] = "sr_ret" /\ ~sr[t].ok
        /\ id[u] = id[t] + 1

\* thread t writes its request in this step
Writes(t) == pc[t] = "sr_write" /\ pc'[t] = "sr_stdout"
\* the request thread t has written in this step
Written(t) == inPipe'[cl[t]][Len(inPipe'[cl[t]])]

\* C12: the request frames and search_frames write has the method frames
\* and params without any skip key when skip is 0, with skip equal to the
\* argument when it is above 0; limit, and for search_frames filter, are
\* always there with the values given, and there is no other key.
C12_SkipOmittedWhenZero ==
    [][\A t \in Threads :
          (Writes(t) /\ call[t].op \in {"frames", "search_frames"}) =>
              LET c == call[t]
                  p == Written(t).v.params
                  keys == (IF c.skip > 0 THEN {"skip"} ELSE {})
                          \cup (IF c.op = "search_frames" THEN {"filter"} ELSE {})
                          \cup {"limit"}
              IN  /\ Written(t).v.method = JStr("frames")
                  /\ p.t = "obj" /\ DOMAIN p.v = keys
                  /\ c.skip > 0 => p.v.skip = JNum(c.skip)
                  /\ p.v.limit = JNum(c.limit)
                  /\ c.op = "search_frames" => p.v.filter = JStr(c.filter)]_vars

\* a search request for skip 0 is on its way to the engine, without skip
C12_Witness ==
    \E t \in Threads :
        /\ pc[t] = "sr_stdout" /\ inPipe[cl[t]] # <<>>
        /\ call[t].op = "search_frames" /\ call[t].skip = 0
        /\ DOMAIN inPipe[cl[t]][1].v.params.v = {"filter", "limit"}

Bool(b) == [t |-> "bool", v |-> b]

\* thread t is back from a check_filter call on the expression f for which
\* the engine wrote a line
CheckAnswered(t, f) ==
    /\ pc[t] = "run" /\ Len(rs[t]) = 1
    /\ call[t].op = "check_filter" /\ call[t].filter = f
    /\ got[t] = 1

\* C13: check_filter on the empty expression returns true whatever line the
\* engine answers the check request with.
C13_EmptyFilterAlwaysValid ==
    \A t \in Threads : CheckAnswered(t, "") => rs[t][1] = Ok(Bool(TRUE))

\* the response to a check request rejects the expression: with an error
\* object, or with an err member in its result
Rejects(ln) ==
    /\ IsResponseLine(ln)
    /\ \/ HasErrorObject(ln.v)
       \/ /\ ~HasError(ln.v) /\ HasResult(ln.v)
          /\ Get(Get(ln.v, "result").v, "err").some

\* C14: check_filter on an expression the engine rejects returns false and
\* never a failure, whether the rejection is an err member of the result or
\* an error object.
C14_RejectedFilterIsInvalid ==
    \A t \in Threads :
        (CheckAnswered(t, "tcp") /\ Rejects(line[t])) => rs[t][1] = Ok(Bool(FALSE))

\* the blocks in the taps array of the result v of a tap request
BlocksIn(v) ==
    LET taps == Get(v, "taps")
    IN  IF taps.some /\ taps.v.t = "arr"
        THEN {taps.v.v[i] : i \in 1..Len(taps.v.v)} ELSE {}

\* thread t is back from capture_stats with the value the call returned
StatsReturned(t) ==
    /\ pc[t] = "run" /\ Len(rs[t]) = 1
    /\ call[t].op = "capture_stats"
    /\ rs[t][1].ok

TapNames == {JStr("phs"), JStr("conv:TCP"), JStr("conv:UDP"), JStr("endpt:IPv4")}

\* C15: capture_stats writes one request, a tap request whose params hold
\* the four taps under four keys, never a second one; it returns a value
\* after one read, and the four parts of that value all come from the
\* response it read.
C15_OneBatchedTapRequest ==
    /\ [][\A t \in Threads :
            (Writes(t) /\ call[t].op = "capture_stats") =>
                LET p == Written(t).v.params
                IN  /\ Written(t).v.method = JStr("tap")
                    /\ p.t = "obj" /\ Cardinality(DOMAIN p.v) = 4
                    /\ {p.v[k] : k \in DOMAIN p.v} = TapNames
                    /\ sent'[t] = 1]_vars
    /\ [](\A t \in Threads :
            /\ call[t].op = "capture_stats" => sent[t] <= 1 /\ reads[t] <= 1
            /\ StatsReturned(t) =>
                  /\ sent[t] = 1 /\ reads[t] = 1 /\ got[t] = 1
                  /\ BlocksIn(sr[t].v) = TapBlocks =>
                        /\ rs[t][1].v.protocol_hierarchy # <<>>
                        /\ rs[t][1].v.tcp_conversations # <<>>
                        /\ rs[t][1].v.udp_conversations # <<>>
                        /\ rs[t][1].v.endpoints # <<>>)

\* capture_stats has returned the four parts of a response with four blocks
C15_Witness ==
    \E t \in Threads :
        /\ StatsReturned(t) /\ sent[t] = 1
        /\ BlocksIn(sr[t].v) = TapBlocks
        /\ rs[t][1].v.endpoints # <<>>

\* what the members of the four blocks decode to
PhsData == <<[protocol |-> "eth", frames |-> 0, bytes |-> 0, children |-> <<>>]>>
ConvData(saddr) ==
    <<[saddr |-> saddr, daddr |-> "", sport |-> None, dport |-> None, rxf |-> 0,
       rxb |-> 0, txf |-> 0, txb |-> 0, start |-> None, stop |-> None,
       filter |-> None]>>
HostData ==
    <<[host |-> "10.0.0.3", port |-> None, rxf |-> 0, rxb |-> 0, txf |-> 0,
       txb |-> 0, filter |-> None]>>
FullStats ==
    CaptureStats(PhsData, ConvData("10.0.0.1"), ConvData("10.0.0.2"), HostData)

\* thread t is back from a capture_stats call whose request got a result
TapAnswered(t) ==
    /\ pc[t] = "run" /\ Len(rs[t]) = 1
    /\ call[t].op = "capture_stats"
    /\ sr[t].ok
\* the taps array of that result
TapsOf(t) == Get(sr[t].v, "taps").v.v

\* C16: whatever the order of the four tagged blocks in the taps array,
\* capture_stats returns the same CaptureStats, each part from the block
\* that carries its tag.
C16_TapOrderIndependent ==
    \A t \in Threads :
        (TapAnswered(t) /\ BlocksIn(sr[t].v) = TapBlocks) => rs[t][1] = Ok(FullStats)

\* the four blocks came in the reverse of the order of the request
C16_Witness ==
    \E t \in Threads :
        /\ TapAnswered(t)
        /\ BlocksIn(sr[t].v) = TapBlocks
        /\ TapsOf(t) = <<HostBlock, UdpBlock, TcpBlock, PhsBlock>>
        /\ rs[t][1] = Ok(FullStats)

\* C17: whichever of the four taps the result holds, none of them and no
\* taps array included, capture_stats succeeds with the decoded data for
\* every tap that is there and an empty list for every tap that is not.
C17_AbsentTapIsEmpty ==
    \A t \in Threads :
        TapAnswered(t) =>
            LET B == BlocksIn(sr[t].v)
            IN  rs[t][1] =
                    Ok(CaptureStats(IF PhsBlock \in B THEN PhsData ELSE <<>>,
                                    IF TcpBlock \in B THEN ConvData("10.0.0.1") ELSE <<>>,
                                    IF UdpBlock \in B THEN ConvData("10.0.0.2") ELSE <<>>,
                                    IF HostBlock \in B THEN HostData ELSE <<>>))

\* a result with the UDP conversations and the protocol hierarchy only
C17_Witness ==
    \E t \in Threads :
        /\ TapAnswered(t)
        /\ BlocksIn(sr[t].v) = {UdpBlock, PhsBlock}
        /\ rs[t][1] = Ok(CaptureStats(PhsData, <<>>, ConvData("10.0.0.2"), <<>>))

\* the protocol names of the model in lower and in upper case
LowerCase == [tcp |-> "tcp", TCP |-> "tcp", Udp |-> "udp"]
UpperCase == [tcp |-> "TCP", TCP |-> "TCP", Udp |-> "UDP"]

\* C18: follow_stream(p, n) writes one follow request whose filter is p in
\* lower case, ".stream==" and n, and whose follow argument is p in upper
\* case; for ("tcp", 0) the filter is tcp.stream==0 and the argument TCP.
C18_FollowRequestShape ==
    /\ [][\A t \in Threads :
            (Writes(t) /\ call[t].op = "follow_stream") =>
                LET c == call[t]
                    p == Written(t).v.params
                IN  /\ Written(t).v.method = JStr("follow")
                    /\ p.t = "obj" /\ DOMAIN p.v = {"follow", "filter"}
                    /\ p.v.filter =
                          JFmt(<<LowerCase[c.protocol], ".stream==", c.stream_id>>)
                    /\ p.v.follow = JStr(UpperCase[c.protocol])
                    /\ (c.protocol = "tcp" /\ c.stream_id = 0) =>
                          /\ p.v.filter = JFmt(<<"tcp", ".stream==", 0>>)
                          /\ p.v.follow = JStr("TCP")
                    /\ sent'[t] = 1]_vars
    /\ [](\A t \in Threads : call[t].op = "follow_stream" => sent[t] <= 1)

\* the request of follow_stream("Udp", 1) is on its way to the engine
C18_Witness ==
    \E t \in Threads :
        /\ pc[t] = "sr_stdout" /\ inPipe[cl[t]] # <<>>
        /\ call[t] = [op |-> "follow_stream", protocol |-> "Udp", stream_id |-> 1]
        /\ inPipe[cl[t]][1].v.params.v.filter = JFmt(<<"udp", ".stream==", 1>>)
        /\ inPipe[cl[t]][1].v.params.v.follow = JStr("UDP")

\* thread t runs stream_handler and its follow request got a result that
\* decoded as a StreamData
StreamFollowed(t) ==
    /\ pc[t] = "run" /\ Len(rs[t]) = 1
    /\ cmd[t].name = "stream_handler"
    /\ rs[t][1].ok
\* the payloads of the result the engine sent
PayloadsOf(t) ==
    IF Get(sr[t].v, "payloads").some THEN Get(sr[t].v, "payloads").v.v ELSE <<>>
\* the segments of the response stream_handler returns
SegmentsOf(t) == Step(cmd[t], rs[t], slot).res.v.segments

\* C19: the response of stream_handler has one segment for each payload of
\* the engine's result, in the same order; a payload with direction bit 0
\* is labelled client_to_server and one with direction bit 1
\* server_to_client.
C19_SegmentDirections ==
    \A t \in Threads :
        StreamFollowed(t) =>
            /\ Step(cmd[t], rs[t], slot).t = "done"
            /\ Len(SegmentsOf(t)) = Len(PayloadsOf(t))
            /\ \A i \in 1..Len(PayloadsOf(t)) :
                  LET p == PayloadsOf(t)[i].v
                      g == SegmentsOf(t)[i]
                  IN  /\ p.s.v = 0 => g.direction = "client_to_server"
                      /\ p.s.v = 1 => g.direction = "server_to_client"
                      /\ g.size = p.n.v
                      /\ g.data[2] = p.d.v

\* stream_handler is about to return two segments, the first from the
\* server and the second from the client
C19_Witness ==
    \E t \in Threads :
        /\ StreamFollowed(t)
        /\ Len(SegmentsOf(t)) = 2
        /\ SegmentsOf(t)[1].direction = "server_to_client"
        /\ SegmentsOf(t)[1].size = 2
        /\ SegmentsOf(t)[2].direction = "client_to_server"

\* thread t is back from a search_frames call whose request got a result
SearchAnswered(t) ==
    /\ pc[t] = "run" /\ Len(rs[t]) = 1
    /\ call[t].op = "search_frames"
    /\ sr[t].ok
\* what Frame1 decodes to
Frame1Data ==
    [columns |-> <<"1", "0.5">>, number |-> 1, background |-> None,
     foreground |-> None]
\* the array of frames in the result v, in either shape, if it has one
FramesIn(v) == IF v.t = "arr" THEN Some(v) ELSE Get(v, "frames")
\* what search_handler answers when search_frames returned r for the call c
SearchResponse(c, r) ==
    search_handler([name |-> "search_handler", filter |-> c.filter,
                    skip |-> c.skip, limit |-> c.limit],
                   <<Ok(Bool(TRUE)), r>>).res.v

\* C20: search_frames returns the same frames for a bare array of frames
\* and for an object with that array under frames, and no frames for a
\* result of neither shape; the total it reports, and search_handler passes
\* on, is the number of frames it returns.
C20_SearchShapesAndTotal ==
    \A t \in Threads :
        SearchAnswered(t) =>
            LET a == FramesIn(sr[t].v)
                n == IF a.some THEN Len(a.v.v) ELSE 0
            IN  /\ a.some => \A i \in 1..n : a.v.v[i] = Frame1
                /\ rs[t][1] = Ok([t |-> "search",
                                  frames |-> [i \in 1..n |-> Frame1Data],
                                  total |-> n])
                /\ SearchResponse(call[t], rs[t][1]).total_matching = n
                /\ Len(SearchResponse(call[t], rs[t][1]).frames) = n

\* search_frames has returned the frame of a result in the object shape
C20_Witness ==
    \E t \in Threads :
        /\ SearchAnswered(t)
        /\ sr[t].v = JObj([frames |-> JArr(<<Frame1>>)])
        /\ rs[t][1] = Ok([t |-> "search", frames |-> <<Frame1Data>>, total |-> 1])

(***************************************************************************)
(* The sidecar                                                             *)
(***************************************************************************)
\* C21: teardown is idempotent and safe with no process.  A call of
\* stop_python_sidecar always leaves no process tracked.  Called when no
\* process is tracked, it returns success and changes nothing of the
\* sidecar: no child is killed or waited for.  Called right after another
\* call of it, it finds no process tracked, so it returns success, kills
\* nothing and leaves the state the first call left.
C21_StopIsIdempotent ==
    [][\A t \in CommandThreads :
          (\E k \in BOOLEAN : StopSidecar(t, k)) =>
              /\ python_process' = 0
              /\ python_process = 0 =>
                    /\ ret'.res = Ok(Unit)
                    /\ UNCHANGED <<python_process, child, kills>>
              /\ stops >= 1 =>
                    /\ python_process = 0
                    /\ ret'.res = Ok(Unit)
                    /\ UNCHANGED <<python_process, child, kills>>]_vars

\* a process was started and stop was called twice in a row: the first call
\* killed it, the second returned success
C21_Witness ==
    /\ stops = 2
    /\ child = <<"reaped">>
    /\ kills = 1
    /\ python_process = 0
    /\ ret.thread # NoThread
    /\ ret.cmd.name = "stop_ai_sidecar"
    /\ ret.res = Ok(Unit)

(***************************************************************************)
(* The install-health probe                                                *)
(***************************************************************************)
\* C22: the install-health probe is independent of the RPC channel.  A step
\* of get_install_health leaves the global mutex, the pipe locks of every
\* client, the pipes, the engines and the slot as they are; and once the
\* command is invoked its return is enabled whoever holds the mutex or a
\* pipe lock, so it completes while another thread is inside a round trip,
\* also one that never ends.
C22_HealthIndependentOfRpc ==
    /\ [](pc[HealthThread] = "health" => ENABLED HealthReturn(HealthThread))
    /\ [][(HealthInvoke(HealthThread) \/ HealthReturn(HealthThread)) =>
            UNCHANGED <<bridgeVars, lockVars, pipeVars, procVars, request_id>>]_vars

\* the probe has returned its status while the command thread holds the
\* mutex and waits for a line of an engine that hangs
C22_Witness ==
    /\ ret.thread = HealthThread
    /\ ret.cmd.name = "get_install_health"
    /\ ret.res.ok
    /\ bridgeLock = SeqThread
    /\ pc[SeqThread] = "sr_readline"
    /\ stdoutLock[cl[SeqThread]] = SeqThread
    /\ engState[cl[SeqThread]] = "hung"

\* get_install_health has returned its status
HealthReturned == ret.thread # NoThread /\ ret.cmd.name = "get_install_health"

IssueCodes == {"missing_sharkd", "missing_dependency", "invalid_bundle", "spawn_failed"}

\* C23: every status get_install_health returns has ok = true exactly when
\* its issues list is empty, and every issue has one of the four codes; the
\* function returns a status on every host, never an error: what it returns
\* has the four members of InstallHealthStatus, and when the locator fails
\* the status holds the one issue missing_sharkd and ok = false.
C23_HealthStatusWellFormed ==
    /\ pc[SeqThread] = "health" =>
          DOMAIN get_install_health(env) =
              {"ok", "issues", "checked_paths", "recommended_action"}
    /\ HealthReturned =>
          /\ DOMAIN ret.res = {"ok", "issues", "checked_paths", "recommended_action"}
          /\ ret.res.ok \in BOOLEAN
          /\ ret.res.ok <=> (ret.res.issues = <<>>)
          /\ \A i \in 1..Len(ret.res.issues) : ret.res.issues[i].code \in IssueCodes
          /\ ~find_sharkd_with_debug(env).ok =>
                /\ ~ret.res.ok
                /\ Len(ret.res.issues) = 1
                /\ ret.res.issues[1].code = "missing_sharkd"

\* the probe has returned on a host where the locator fails
C23_Witness ==
    /\ HealthReturned
    /\ ~find_sharkd_with_debug(env).ok
    /\ ~ret.res.ok
    /\ ret.res.issues[1].code = "missing_sharkd"

\* C24: in every status get_install_health returns, on every platform and
\* on the success and the failure path, recommended_action is exactly
\* "repair" or exactly "none".
C24_RecommendedActionIsCoarse ==
    HealthReturned => ret.res.recommended_action \in {"repair", "none"}

(***************************************************************************)
(* The binary locator                                                      *)
(***************************************************************************)
\* find_sharkd_with_debug has returned
Located == ret.thread # NoThread /\ ret.cmd.name = "find_sharkd_with_debug"

\* the executable is known and is no development build
ProductionHost ==
    /\ env.current_exe.ok
    /\ \A i \in 1..Len(env.current_exe.v) :
          env.current_exe.v[i] \notin {"debug", "release"}

\* the names of the bundled candidates in their order: the wrapper entry
\* point, the target-triple binary, the legacy un-suffixed binary (a Windows
\* build has no wrapper)
BundledNames ==
    IF env.windows
    THEN <<"sharkd-x86_64-pc-windows-msvc.exe", "sharkd.exe">>
    ELSE <<"sharkd-wrapper-x86_64-unknown-linux-gnu",
           "sharkd-x86_64-unknown-linux-gnu", "sharkd">>

\* the bundled candidates of the host, in that order
BundledPaths ==
    [i \in 1..Len(BundledNames) |->
        SubSeq(env.current_exe.v, 1, Len(env.current_exe.v) - 1)
            \o <<BundledNames[i]>>]

\* the entries of the trail that record a probe of a bundled candidate
IsBundledEntry(e) == e.k = "Checking bundled path: {:?} (exists: {})"
\* the entries of the system discovery
IsSystemEntry(e) ==
    e.k \in {"Falling back to system sharkd discovery...",
             "Checking system path: {:?} (exists: {})",
             "'which sharkd' returned empty output",
             "'which sharkd' did not find sharkd in PATH",
             "Failed to execute 'which sharkd': {}",
             "'where sharkd' succeeded but returned no paths",
             "'where sharkd' found {} path(s)",
             "'where sharkd' did not find sharkd in PATH",
             "Failed to execute 'where sharkd': {}"}

\* the candidates the PATH lookup printed
PathCandidates == IF env.lookup.st = "ok" THEN Range(env.lookup.out) ELSE {}

\* the trail of the locator's answer
Trail == IF ret.res.ok THEN ret.res.v.debug ELSE ret.res.debug

\* C25: in production mode, with no bundled candidate present and a
\* candidate of the PATH lookup that exists, the locator returns a PATH
\* candidate that exists (the first the lookup printed), and its trail holds
\* one entry for every bundled candidate, in their order, recording that it
\* was probed and did not exist; all of them come before the entries of the
\* system discovery, which end with the probe of the returned path.
C25_SystemFallbackRecordsBundled ==
    (/\ Located
     /\ ProductionHost
     /\ \A i \in 1..Len(BundledPaths) : BundledPaths[i] \notin env.files
     /\ PathCandidates \cap env.files # {}) =>
        /\ ret.res.ok
        /\ ret.res.v.path \in PathCandidates \cap env.files
        /\ \E i \in 1..Len(env.lookup.out) :
              /\ env.lookup.out[i] = ret.res.v.path
              /\ \A j \in 1..(i - 1) : env.lookup.out[j] \notin env.files
        /\ SelectSeq(Trail, IsBundledEntry) =
              [i \in 1..Len(BundledPaths) |->
                  [k |-> "Checking bundled path: {:?} (exists: {})",
                   path |-> BundledPaths[i], exists |-> FALSE]]
        /\ \A i, j \in 1..Len(Trail) :
              (IsBundledEntry(Trail[i]) /\ IsSystemEntry(Trail[j])) => i < j
        /\ Trail[Len(Trail)] =
              [k |-> "Checking system path: {:?} (exists: {})",
               path |-> ret.res.v.path, exists |-> TRUE]

\* a Linux install without its bundle: the locator has returned the path
\* `which` printed, after three bundled probes
C25_Witness ==
    /\ Located
    /\ ProductionHost
    /\ ~env.windows
    /\ env.files = {WhichPath}
    /\ ret.res.ok
    /\ ret.res.v.path = WhichPath
    /\ Len(SelectSeq(Trail, IsBundledEntry)) = 3

\* C26: in production mode the locator returns the first bundled candidate
\* that exists, in the order wrapper entry point, target-triple binary,
\* legacy binary: the wrapper wins whenever it exists, and a bundled
\* candidate that exists wins over every system candidate.  In development
\* mode (and when the executable is unknown) no bundled candidate is probed
\* or returned, even when it exists.
C26_BundledOrderAndDevMode ==
    Located =>
        /\ (ProductionHost /\ \E i \in 1..Len(BundledPaths) : BundledPaths[i] \in env.files) =>
              /\ ret.res.ok
              /\ \E i \in 1..Len(BundledPaths) :
                    /\ ret.res.v.path = BundledPaths[i]
                    /\ BundledPaths[i] \in env.files
                    /\ \A j \in 1..(i - 1) : BundledPaths[j] \notin env.files
              /\ \A p \in env.files :
                    p[Len(p)] = "sharkd-wrapper-x86_64-unknown-linux-gnu" =>
                        ret.res.v.path = p
              /\ \A i \in 1..Len(Trail) : ~IsSystemEntry(Trail[i])
        /\ ~ProductionHost =>
              /\ \A i \in 1..Len(Trail) : ~IsBundledEntry(Trail[i])
              /\ (ret.res.ok /\ env.current_exe.ok) =>
                    \A i \in 1..Len(BundledPaths) : ret.res.v.path # BundledPaths[i]

\* an install with the wrapper, the raw binary and a system sharkd: the
\* locator has returned the wrapper
C26_Witness ==
    /\ Located
    /\ ProductionHost
    /\ ~env.windows
    /\ Cardinality(env.files) = 4
    /\ ret.res.ok
    /\ ret.res.v.path[Len(ret.res.v.path)] = "sharkd-wrapper-x86_64-unknown-linux-gnu"

(***************************************************************************)
(* Outcomes at the command and HTTP boundary                               *)
(***************************************************************************)
\* the step is the return of the command or handler thread t runs
Returns(t) ==
    /\ pc[t] = "run"
    /\ pc'[t] = "idle"
    /\ cmd[t].name \in TauriCommands \cup HttpHandlers
    /\ ret'.thread = t

\* the empty-valued (or error-object) response of a handler
EmptyValued(c) ==
    CASE c.name = "get_frames_handler" ->
           Json([t |-> "FramesResult", frames |-> <<>>, total |-> 0])
      [] c.name = "get_frame_details_handler" ->
           Json(JObj([error |-> JStr("Failed to get frame details")]))
      [] c.name = "check_filter_handler" -> Json([valid |-> FALSE])
      [] c.name = "search_handler" ->
           Json([t |-> "SearchResult", frames |-> <<>>, total_matching |-> 0,
                 filter_applied |-> c.filter])
      [] c.name = "stream_handler" -> Json(EmptyStreamResponse)
      [] c.name = "capture_stats_handler" -> Json(EmptyCaptureStatsResponse)

\* a command's error, or the success=false payload of load_pcap
FailureValue(r) ==
    \/ ~r.ok
    \/ r.ok /\ r.v.t = "LoadResult" /\ ~r.v.success /\ r.v.error.some

\* the outcome is a Result for a command, a JSON body for a handler
WellFormed(c, r) ==
    IF c.name \in TauriCommands THEN "ok" \in DOMAIN r /\ r.ok \in BOOLEAN
    ELSE r.t = "Json"

\* the calls of the command whose failure decides its outcome: all of them,
\* but for the status call of capture_stats_handler and the check_filter call of
\* search_handler
Deciding(c, replies) ==
    IF c.name \in {"capture_stats_handler", "search_handler"}
    THEN {i \in 1..Len(replies) : i = 2}
    ELSE 1..Len(replies)

\* what the handler returns when only the call it tolerates failed
Tolerated(c, replies, r) ==
    CASE c.name = "capture_stats_handler" ->
           /\ r.t = "Json"
           /\ r.v.summary.total_frames = 0
           /\ r.v.summary.duration = None
           /\ r.v.stats = replies[2].v
      [] c.name = "search_handler" ->
           /\ r.t = "Json"
           /\ r.v.total_matching = replies[2].v.total
           /\ Len(r.v.frames) = Len(replies[2].v.frames)
           /\ r.v.filter_applied = c.filter
      [] OTHER -> FALSE

\* C27 as stated: every command and handler ends with a well-formed
\* outcome; with no client in the slot the commands return a 'not
\* initialized' error and the handlers their empty-valued response, with no
\* request written; when an RPC of it failed, a command returns an error or a
\* success=false payload and a handler its empty-valued response.
C27_FailureGivesEmptyOutcome ==
    [][\A t \in Threads : Returns(t) =>
          /\ WellFormed(cmd[t], ret'.res)
          /\ slot = 0 =>
                /\ rs[t] = <<>> /\ sent[t] = 0
                /\ UNCHANGED <<nWritten, inPipe, nSpawned>>
                /\ IF cmd[t].name \in TauriCommands
                   THEN ~ret'.res.ok /\ ret'.res.kind \in
                          {"Sharkd not initialized",
                           "Sharkd not initialized. Call init_sharkd first."}
                   ELSE ret'.res = EmptyValued(cmd[t])
          /\ (slot # 0 /\ \E i \in 1..Len(rs[t]) : ~rs[t][i].ok) =>
                IF cmd[t].name \in TauriCommands THEN FailureValue(ret'.res)
                ELSE ret'.res = EmptyValued(cmd[t])]_vars

\* C27, amended: as above, but a handler returns its empty-valued response
\* when a call that decides its outcome failed.  capture_stats_handler
\* tolerates a failed status call (the statistics are returned with
\* total_frames 0 and no duration) and search_handler a failed filter check
\* (the search is made and its page returned).
C27_WellFormedOutcomes ==
    [][\A t \in Threads : Returns(t) =>
          /\ WellFormed(cmd[t], ret'.res)
          /\ slot = 0 =>
                /\ rs[t] = <<>> /\ sent[t] = 0
                /\ UNCHANGED <<nWritten, inPipe, nSpawned>>
                /\ IF cmd[t].name \in TauriCommands
                   THEN ~ret'.res.ok /\ ret'.res.kind \in
                          {"Sharkd not initialized",
                           "Sharkd not initialized. Call init_sharkd first."}
                   ELSE ret'.res = EmptyValued(cmd[t])
          /\ (slot # 0 /\ \E i \in Deciding(cmd[t], rs[t]) : ~rs[t][i].ok) =>
                IF cmd[t].name \in TauriCommands THEN FailureValue(ret'.res)
                ELSE ret'.res = EmptyValued(cmd[t])
          /\ (/\ slot # 0
              /\ \E i \in 1..Len(rs[t]) : ~rs[t][i].ok
              /\ \A i \in Deciding(cmd[t], rs[t]) : rs[t][i].ok) =>
                Tolerated(cmd[t], rs[t], ret'.res)]_vars

\* capture_stats_handler has returned its empty response from a bridge that
\* holds a client: its capture_stats call failed
C27_Witness ==
    /\ ret.thread # NoThread
    /\ ret.cmd.name = "capture_stats_handler"
    /\ ret.res = Json(EmptyCaptureStatsResponse)
    /\ slot # 0

(***************************************************************************)
(* Ownership of the engine process                                         *)
(***************************************************************************)
\* the engines whose client was discarded or replaced
Discarded == {e \in Engines : handle[e] = "dropped"}

\* C28: whenever a SharkdClient is discarded (new fails at the handshake
\* after the spawn) or replaced in the global slot, its engine process is
\* terminated (killed and waited for) and its pipes are closed.
C28_DroppedClientTerminatesEngine ==
    \A e \in Discarded :
        /\ engState[e] = "terminated"
        /\ inPipe[e] = <<>>
        /\ outPipe[e] = <<>>

(***************************************************************************)
(* The global mutex and the order of requests on the engine's channel      *)
(***************************************************************************)
\* thread t is between the lock() of its command and its return
HoldsBridge(t) == pc[t] \notin {"idle", "lock", "done"}

\* the step writes a request of thread t to the input pipe of an engine
WritesRequest(t) ==
    /\ pc[t] = "sr_write"
    /\ sent'[t] = sent[t] + 1

\* the step is the read_line of thread t and takes a line from the pipe
TakesLine(t) ==
    /\ pc[t] = "sr_readline"
    /\ got'[t] = got[t] + 1

\* the request thread t wrote last
OwnRequest(t) ==
    Request(id[t], CallRequest(call[t]).method, CallRequest(call[t]).params)

\* C29: a command or handler holds the mutex of SHARKD from before its first
\* request until after its last response; while a command that has made a
\* round trip has not returned, no other thread writes a request to any engine
\* (so frames/status, load/status, check/status and check/frames are
\* contiguous); and the line a caller takes from the pipe is an answer to
\* the request it wrote.
C29_RoundTripsOfACommandAreContiguous ==
    /\ [](\A t \in Threads : HoldsBridge(t) => bridgeLock = t)
    /\ [][\A t \in Threads :
            /\ WritesRequest(t) =>
                  /\ bridgeLock = t
                  /\ \A u \in Threads \ {t} :
                        rs[u] = <<>> /\ sent[u] = 0 /\ ~HoldsBridge(u)
            /\ TakesLine(t) =>
                  /\ bridgeLock = t
                  /\ line'[t] \in Answers(OwnRequest(t))
                  /\ outPipe'[cl[t]] = <<>>]_vars

\* a command is between its two requests (the first answered, the second
\* about to be written) while another thread waits for the mutex
C29_Witness ==
    \E t, u \in CommandThreads :
        /\ t # u
        /\ cmd[t].name \in {"get_frames", "load_pcap", "apply_filter", "search_handler"}
        /\ Len(rs[t]) = 1 /\ rs[t][1].ok
        /\ pc[t] = "sr_write"
        /\ pc[u] = "lock"

(***************************************************************************)
(* Initialisation: the startup thread and init_sharkd                      *)
(***************************************************************************)
\* C30: for every interleaving of the startup thread and init_sharkd
\* commands at most one engine is spawned and stored: once the slot holds a
\* client, no initialisation spawns another engine or overwrites the client.
C30_SingleEngine ==
    [][slot # 0 => slot' = slot /\ nSpawned' = nSpawned]_vars

\* init_sharkd runs on thread t
InitSharkd(t) == cmd[t].name = "init_sharkd"

\* what the engines and the slot hold
BridgeState == <<slot, nSpawned, handle, request_id, inPipe, nWritten, firstReq>>

\* C31: init_sharkd called while the slot holds a client returns the
\* 'already initialized' success, spawns no process, writes nothing to an
\* engine and leaves the stored client and its request counter as they were.
C31_InitSharkdIsIdempotent ==
    /\ [](\A t \in Threads : InitSharkd(t) /\ slot # 0 => pc[t] = "run")
    /\ [][\A t \in Threads :
            (InitSharkd(t) /\ slot # 0 /\ pc'[t] # pc[t]) =>
                /\ ret' = Returned(t, cmd[t], Ok(JStr("Sharkd already initialized")))
                /\ pc'[t] = "idle"
                /\ sent[t] = 0
                /\ UNCHANGED BridgeState]_vars

\* init_sharkd has returned 'already initialized' on a client that has made
\* round trips since its handshake
C31_Witness ==
    /\ ret.thread # NoThread
    /\ ret.cmd.name = "init_sharkd"
    /\ ret.res = Ok(JStr("Sharkd already initialized"))
    /\ slot # 0
    /\ request_id[slot] > 2

\* thread t is inside SharkdClient::new
InNew(t) == pc[t] = "new" \/ (pc[t] \notin {"idle", "lock", "run", "done"} /\ call[t].op = "new")

\* C32: both initialisations hold the mutex of SHARKD across the whole of
\* SharkdClient::new; the first request written to an engine is the
\* handshake `status` with id 1; and every other request written to an
\* engine is written by the holder of the mutex to the client stored in the
\* slot, which is stored only after new read and accepted the handshake
\* response.
C32_NoUseWhileSpawning ==
    /\ [](\A t \in Threads : InNew(t) => InInit(t) /\ bridgeLock = t)
    /\ [](\A e \in Engines :
            firstReq[e] # NoLine => firstReq[e] = JsonLine(Request(1, "status", None)))
    /\ [][\A t \in Threads : WritesRequest(t) =>
            IF call[t].op = "new"
            THEN nWritten[cl[t]] = 0 /\ id[t] = 1 /\ slot # cl[t]
            ELSE /\ cl[t] = slot
                 /\ nWritten[cl[t]] >= 1
                 /\ \A u \in Threads : ~InNew(u)]_vars

\* the handshake of a new engine is in flight while a command waits for the
\* mutex
C32_Witness ==
    \E t \in Threads, u \in CommandThreads :
        /\ t # u
        /\ InNew(t) /\ InFlight(t)
        /\ nWritten[cl[t]] = 1
        /\ pc[u] = "lock"

(***************************************************************************)
(* Order of the request lines on the input pipe                            *)
(***************************************************************************)
\* the ids of the request lines in the input pipe of engine e, oldest first
PendingIds(e) == [i \in 1..Len(inPipe[e]) |-> inPipe[e][i].v.id.v]

HeldBy(t) ==
    (IF bridgeLock = t THEN {"SHARKD"} ELSE {})
        \cup {"stdin" : e \in {e \in Engines : stdinLock[e] = t}}
        \cup {"stdout" : e \in {e \in Engines : stdoutLock[e] = t}}

\* the lock thread t waits for, if any
WaitsFor(t) ==
    CASE pc[t] = "lock" -> {"SHARKD"}
      [] pc[t] = "sr_stdin" -> {"stdin"}
      [] pc[t] = "sr_stdout" -> {"stdout"}
      [] OTHER -> {}

\* a pipe lock is taken under the mutex of SHARKD only, the two pipe locks
\* are never held together, a thread that waits for the mutex of SHARKD
\* holds nothing, and no thread waits for a lock it holds; the sidecar mutex
\* is held inside one step and with no other lock
LockOrder ==
    \A t \in Threads :
        /\ WaitsFor(t) \cap HeldBy(t) = {}
        /\ "SHARKD" \in WaitsFor(t) => HeldBy(t) = {}
        /\ HeldBy(t) \cap {"stdin", "stdout"} # {} => "SHARKD" \in HeldBy(t)
        /\ ~({"stdin", "stdout"} \subseteq HeldBy(t))
        /\ WaitsFor(t) \cap {"stdin", "stdout"} # {} => HeldBy(t) = {"SHARKD"}
        /\ pc[t] = "sidecar_check" => HeldBy(t) = {}

\* the model's budget of requests on one client is used up
OutOfBudget == \E e \in Engines : request_id[e] > MaxReq

Exited(t) == cl[t] # 0 /\ engState[cl[t]] = "exited"

\* C35: once the engine has exited and its output pipe is at end of file, a
\* call on its client fails: the write fails and nothing is read, or the
\* read finds the end of file; the operation returns the error to its
\* caller; no call waits; and the calls neither spawn an engine nor change
\* the slot.
C35_ExitedEngineFailsEveryCall ==
    /\ [](\A t \in Threads :
            /\ (pc[t] = "sr_ret" /\ Exited(t) /\ got[t] = 0) => ~sr[t].ok
            /\ (pc[t] = "sr_readline" /\ Exited(t)) => LineReady(cl[t]))
    /\ [][\A t \in Threads :
            /\ (pc[t] = "sr_write" /\ Exited(t) /\ pc'[t] # pc[t]) =>
                  /\ pc'[t] = "sr_ret"
                  /\ sr'[t] = Err("Failed to write to sharkd")
                  /\ UNCHANGED <<inPipe, nWritten>>
            /\ (pc[t] = "sr_readline" /\ Exited(t) /\ outPipe[cl[t]] = <<>>
                   /\ pc'[t] # pc[t]) =>
                  /\ pc'[t] = "sr_ret"
                  /\ sr'[t] = Err("Failed to parse JSON from sharkd")
            /\ (pc[t] = "sr_ret" /\ ~sr[t].ok /\ pc'[t] # pc[t]) =>
                  /\ Len(rs'[t]) = Len(rs[t]) + 1
                  /\ ~rs'[t][Len(rs'[t])].ok
            /\ (InCommand(t) /\ Exited(t) /\ pc'[t] # pc[t]) =>
                  /\ UNCHANGED <<slot, nSpawned, handle>>
                  /\ engState'[cl[t]] = "exited"]_vars

\* a command has made a call on the stored client after its engine exited
\* and the call has returned its error; the client is still in the slot
C35_Witness ==
    \E t \in Threads :
        /\ InCommand(t)
        /\ pc[t] = "run" /\ Len(rs[t]) = 1 /\ ~rs[t][1].ok
        /\ sent[t] = 0
        /\ Exited(t)
        /\ slot = cl[t] /\ handle[slot] = "owned"

(***************************************************************************)
(* Failed initialisation                                                   *)
(***************************************************************************)
\* the step is the return of init_sharkd or of the startup thread whose
\* SharkdClient::new failed
InitFails(t) ==
    /\ InInit(t)
    /\ pc[t] = "run"
    /\ Len(rs[t]) = 1 /\ ~rs[t][1].ok
    /\ pc'[t] # pc[t]

\* C36: when SharkdClient::new fails (binary not found, spawn failed,
\* handshake failed) init_sharkd returns the error, the startup thread emits
\* it, and the slot is left as it was; with the slot empty every command
\* and handler then reports 'not initialized' without a request, and an
\* init_sharkd that finds the slot empty enters SharkdClient::new afresh.
C36_FailedInitLeavesSlotEmpty ==
    [][\A t \in Threads :
         /\ InitFails(t) =>
               /\ slot' = slot
               /\ ret'.thread = t
               /\ ret'.res = IF InitSharkd(t) THEN rs[t][1]
                             ELSE [t |-> "emit", event |-> "sharkd-error", e |-> rs[t][1]]
               /\ cl'[t] = 0
         /\ (InCommand(t) /\ slot = 0 /\ pc[t] = "run" /\ pc'[t] # pc[t]) =>
               /\ rs[t] = <<>>
               /\ pc'[t] = "idle"
               /\ ret'.res = NotInitialized(cmd[t])
               /\ UNCHANGED <<slot, nSpawned, nWritten>>
         /\ (InitSharkd(t) /\ slot = 0 /\ pc[t] = "run" /\ rs[t] = <<>>
                /\ pc'[t] # pc[t]) =>
               pc'[t] = "new" /\ cl[t] = 0]_vars

\* after an initialisation that failed at the handshake, with the slot
\* still empty, init_sharkd is inside SharkdClient::new again
C36_Witness ==
    \E t \in CommandThreads :
        /\ InitSharkd(t)
        /\ pc[t] = "new"
        /\ slot = 0
        /\ nSpawned = 1
        /\ handle[1] = "dropped"

(***************************************************************************)
(* Loading a capture                                                       *)
(***************************************************************************)
\* thread t runs load_pcap
LoadPcap(t) == cmd[t].name = "load_pcap"

\* the result member of a load response is one that load accepts: its status
\* is the string "OK", or it has no err member
LoadAccepted(v) ==
    \/ Get(v, "status").some /\ IsString(Get(v, "status").v)
          /\ Get(v, "status").v.v = "OK"
    \/ ~Get(v, "err").some

\* thread t takes a step of its own
Steps(t) == pc'[t] # pc[t]

\* C37: load_pcap writes its status request only after its load has
\* succeeded.  The load succeeds exactly when its round trip succeeded and
\* the result is accepted.  After a failed load the command returns
\* success = false with the error, frame count 0 and no duration, and writes
\* no further request.  After a successful load it reads the status once
\* and returns the frame count of that status, 0 when the status has none;
\* a status that fails is returned as the command's error.
C37_StatusOnlyAfterLoad ==
    [][\A t \in Threads : LoadPcap(t) =>
          /\ (pc[t] = "sr_ret" /\ call[t].op = "load" /\ Steps(t)) =>
                (rs'[t][1].ok <=> (sr[t].ok /\ LoadAccepted(sr[t].v)))
          /\ (pc[t] = "run" /\ pc'[t] = "sr_begin") =>
                /\ call'[t].op = IF rs[t] = <<>> THEN "load" ELSE "status"
                /\ call'[t].op = "status" => Len(rs[t]) = 1 /\ rs[t][1].ok
          /\ (pc[t] = "run" /\ rs[t] # <<>> /\ ~rs[t][1].ok /\ Steps(t)) =>
                /\ Len(rs[t]) = 1
                /\ ret' = Returned(t, cmd[t],
                                   Ok(LoadResult(FALSE, 0, None, Some(rs[t][1]))))
                /\ UNCHANGED <<inPipe, nWritten, request_id>>
          /\ (pc[t] = "run" /\ Len(rs[t]) = 2 /\ Steps(t)) =>
                /\ rs[t][1].ok
                /\ ret'.thread = t /\ ret'.cmd = cmd[t]
                /\ ~rs[t][2].ok => ret'.res = rs[t][2]
                /\ rs[t][2].ok =>
                      /\ ret'.res.ok
                      /\ ret'.res.v.success
                      /\ ret'.res.v.error = None
                      /\ ret'.res.v.frame_count =
                            IF rs[t][2].v.frames.some THEN rs[t][2].v.frames.v
                            ELSE 0]_vars

\* load_pcap has returned a loaded capture of frame count 0: the load was
\* accepted and the status read after it carried no frame count
C37_Witness ==
    /\ ret.thread \in CommandThreads
    /\ ret.cmd.name = "load_pcap"
    /\ ret.res.ok
    /\ ret.res.v.success
    /\ ret.res.v.frame_count = 0
    /\ ret.res.v.duration = None

(***************************************************************************)
(* Searching with a display filter                                         *)
(***************************************************************************)
\* thread t runs search_handler
SearchHandler(t) == cmd[t].name = "search_handler"

\* check_filter returned Ok(false)
ReportsInvalid(r) == r.ok /\ ~r.v.v

\* C38: search_handler writes its frames request only after check_filter has
\* returned, and only when check_filter did not return Ok(false), which it
\* does exactly when the check response carries a result with an err member.
\* After Ok(false) the handler writes nothing more and returns no frames,
\* total_matching 0 and the filter of the request.
C38_ValidatesBeforeSearch ==
    [][\A t \in Threads : SearchHandler(t) =>
          /\ (pc[t] = "sr_ret" /\ call[t].op = "check_filter" /\ Steps(t)) =>
                (ReportsInvalid(rs'[t][1])
                    <=> (sr[t].ok /\ Get(sr[t].v, "err").some))
          /\ WritesRequest(t) =>
                /\ call[t].op = IF rs[t] = <<>> THEN "check_filter"
                                ELSE "search_frames"
                /\ call[t].op = "search_frames" =>
                      /\ Len(rs[t]) = 1
                      /\ ~ReportsInvalid(rs[t][1])
                      /\ call[t].filter = cmd[t].filter
          /\ (pc[t] = "run" /\ rs[t] # <<>> /\ ReportsInvalid(rs[t][1])
                 /\ Steps(t)) =>
                /\ Len(rs[t]) = 1
                /\ ret' = Returned(t, cmd[t],
                                   Json(SearchResult(<<>>, 0, cmd[t].filter)))
                /\ UNCHANGED <<inPipe, nWritten, request_id>>]_vars

\* the engine has rejected the filter "tcp" of a search and check_filter has
\* returned Ok(false) to the handler; one request has gone to the engine
C38_Witness ==
    \E t \in CommandThreads :
        /\ SearchHandler(t)
        /\ cmd[t].filter = "tcp"
        /\ pc[t] = "run"
        /\ Len(rs[t]) = 1
        /\ ReportsInvalid(rs[t][1])
        /\ slot # 0 /\ nWritten[slot] >= 2

(***************************************************************************)
(* One sidecar tracked                                                     *)
(***************************************************************************)
\* the child in PYTHON_PROCESS is alive
TrackedRuns == python_process # 0 /\ child[python_process] = "running"

\* the step is spawn_python_sidecar_with_config on thread t
Spawns(t) == \E f, s \in BOOLEAN : StartSidecar(t, f, s)

\* the step is check_python_sidecar on thread t
Checks(t) ==
    \E f, u \in BOOLEAN : StartSidecarCheck(t, f, u) \/ GetSidecarStatus(t, f, u)

\* the step starts a child and tracks it
StartsOne ==
    /\ Len(child') = Len(child) + 1
    /\ child'[Len(child')] = "running"
    /\ \A i \in 1..Len(child) : child'[i] \in {child[i], "reaped"}
    /\ python_process' = Len(child')

\* C39, as stated: a spawn made while the tracked process is still running
\* starts no process and returns the port; a spawn made after the tracked
\* process exited, or with none tracked, starts exactly one; a tracked
\* process found to have exited is dropped from tracking.
C39_SpawnStartsExactlyOne ==
    [][\A t \in CommandThreads :
          /\ Spawns(t) =>
                /\ TrackedRuns =>
                      /\ UNCHANGED <<child, python_process>>
                      /\ pc'[t] = "sidecar_check"
                /\ ~TrackedRuns => StartsOne /\ pc'[t] = "sidecar_check"
          /\ (Spawns(t) \/ Checks(t)) =>
                ((python_process # 0 /\ child[python_process] = "exited") =>
                    python_process' # python_process)]_vars

\* C39: PYTHON_PROCESS tracks at most one child, never one that was reaped.
\* A spawn whose try_wait finds the tracked child running starts no process,
\* keeps the child and returns the port.  Any other spawn (the tracked child
\* has exited, none is tracked, or try_wait failed) starts at most one
\* process: when the spawn succeeds it starts exactly one, tracks it and
\* returns the port; when the spawn fails it starts none, tracks none and
\* returns the error.  A tracked child that spawn or check finds to have
\* exited is reaped and dropped from tracking; check starts no process.
C39_OneSidecarTracked ==
    /\ [](/\ python_process \in 0..Len(child)
          /\ python_process # 0 => child[python_process] # "reaped")
    /\ [][\A t \in CommandThreads :
            /\ \A f, s \in BOOLEAN : StartSidecar(t, f, s) =>
                  /\ (TrackedRuns /\ ~f) =>
                        /\ UNCHANGED <<child, python_process>>
                        /\ pc'[t] = "sidecar_check"
                  /\ ~(TrackedRuns /\ ~f) =>
                        /\ pc'[t] = "sidecar_check" <=> StartsOne
                        /\ pc'[t] # "sidecar_check" =>
                              /\ Len(child') = Len(child)
                              /\ python_process' = 0
                              /\ ret' = Returned(t, [name |-> "start_ai_sidecar"],
                                                 Err("Failed to spawn sidecar"))
            /\ \A f \in BOOLEAN :
                  ((\E s \in BOOLEAN : StartSidecar(t, f, s))
                     \/ (\E u \in BOOLEAN : StartSidecarCheck(t, f, u))
                     \/ (\E u \in BOOLEAN : GetSidecarStatus(t, f, u))) =>
                  ((python_process # 0 /\ child[python_process] = "exited" /\ ~f)
                      => /\ python_process' # python_process
                         /\ child'[python_process] = "reaped")
            /\ Checks(t) =>
                  /\ Len(child') = Len(child)
                  /\ python_process' \in {0, python_process}]_vars

\* a spawn made after the tracked child had exited has reaped it and started
\* the second child, which is tracked; the command is at its sleep
C39_Witness ==
    \E t \in CommandThreads :
        /\ pc[t] = "sidecar_check"
        /\ child = <<"reaped", "running">>
        /\ python_process = 2

(***************************************************************************)
(* Damaged tap blocks                                                      *)
(***************************************************************************)
\* the part of the statistics that the tap of the block fills
PartOf(stats, block) ==
    CASE block.v.tap = JStr("phs") -> stats.protocol_hierarchy
      [] block.v.tap = JStr("conv:TCP") -> stats.tcp_conversations
      [] block.v.tap = JStr("conv:UDP") -> stats.udp_conversations
      [] block.v.tap = JStr("endpt:IPv4") -> stats.endpoints

\* the taps array without its i-th block
Without(taps, i) == SubSeq(taps, 1, i - 1) \o SubSeq(taps, i + 1, Len(taps))

\* the result of a tap request whose taps array is taps
TapResult(taps) == Ok(JObj([taps |-> JArr(taps)]))

\* C40: whenever the tap request succeeds capture_stats succeeds.  A block
\* that carries the tag of its tap but whose payload member is missing or
\* does not decode gives the empty list for its part; every other part is
\* the one capture_stats gives for the same array without that block, and
\* is the decoded payload of its block when that block is whole.
C40_DamagedBlockIsLocal ==
    \A t \in Threads :
        TapAnswered(t) =>
            /\ rs[t][1].ok
            /\ LET B == BlocksIn(sr[t].v)
               IN  B \cap DamagedBlocks # {} =>
                      LET taps == TapsOf(t)
                          stats == rs[t][1].v
                      IN  \A i \in 1..Len(taps) :
                             taps[i] \in DamagedBlocks =>
                                /\ PartOf(stats, taps[i]) = <<>>
                                /\ \A j \in 1..Len(taps) :
                                      j # i =>
                                         PartOf(stats, taps[j]) =
                                            PartOf(capture_stats(
                                                      TapResult(Without(taps, i))).v,
                                                   taps[j])
                                /\ PhsBlock \in B => stats.protocol_hierarchy = PhsData
                                /\ TcpBlock \in B =>
                                      stats.tcp_conversations = ConvData("10.0.0.1")
                                /\ UdpBlock \in B =>
                                      stats.udp_conversations = ConvData("10.0.0.2")
                                /\ HostBlock \in B => stats.endpoints = HostData

\* the UDP block came with a payload whose second element is no conversation
\* and the three other blocks whole: the UDP part is empty, the others full
C40_Witness ==
    \E t \in Threads :
        /\ TapAnswered(t)
        /\ BadPayload.udp \in BlocksIn(sr[t].v)
        /\ TapsOf(t) = <<PhsBlock, TcpBlock, BadPayload.udp, HostBlock>>
        /\ rs[t][1] = Ok(CaptureStats(PhsData, ConvData("10.0.0.1"), <<>>, HostData))
====
